---- MODULE Spec2Model ----
(***************************************************************************)
(* Model of the bun-server starter template: the static asset guard        *)
(* (utils/staticAssets.ts), the route matcher (utils/loadRoutes.ts) and    *)
(* the fetch dispatch pipeline (index.ts).                                 *)
(*                                                                         *)
(* A string is a sequence of one-character strings, so that split, slice,  *)
(* startsWith, endsWith and percent-decoding are computed as the code      *)
(* computes them.  File-system paths are sequences of names (POSIX, the    *)
(* platform of the shipped Dockerfile: the separator is "/" and "\" is an  *)
(* ordinary character of a name).                                          *)
(***************************************************************************)
EXTENDS Integers, Sequences, FiniteSets, TLC

(***************************************************************************)
(* Bounds of the model.                                                    *)
(***************************************************************************)
\* files in an enumerated routes directory
MaxRouteFiles == 2

\* the calls of fetch that are suspended while another one runs
MaxWaiting == 2

\* the origins of a configured array
MaxOrigins == 2

\* segments after /assets in an enumerated request target
MaxAssetSegs == 2
\* segments in an enumerated request target outside /assets
MaxRouteSegs == 3
\* symbolic links followed by one path resolution before it fails (ELOOP)
MaxLinks == 2

(***************************************************************************)
(* String primitives (String.prototype).                                   *)
(***************************************************************************)
StartsWith(s, p) == Len(s) >= Len(p) /\ SubSeq(s, 1, Len(p)) = p

EndsWith(s, p) == Len(s) >= Len(p) /\ SubSeq(s, Len(s) - Len(p) + 1, Len(s)) = p

\* s.slice(n)
Slice(s, n) == SubSeq(s, n + 1, Len(s))

\* s.slice(0, -1)
DropLast(s) == SubSeq(s, 1, Len(s) - 1)

\* s.includes(c) for a one-character c
Includes(s, c) == \E i \in 1..Len(s) : s[i] = c

RECURSIVE SplitAcc(_, _, _)
SplitAcc(s, cur, acc) ==
    IF s = <<>> THEN Append(acc, cur)
    ELSE IF Head(s) = "/" THEN SplitAcc(Tail(s), <<>>, Append(acc, cur))
    ELSE SplitAcc(Tail(s), Append(cur, Head(s)), acc)

\* s.split('/')
Split(s) == SplitAcc(s, <<>>, <<>>)

NonEmpty(x) == x # <<>>

\* segments.filter(Boolean)
FilterBoolean(segs) == SelectSeq(segs, NonEmpty)

RECURSIVE JoinSlash(_)
\* the string "/" + segs[1] + "/" + segs[2] + ...
JoinSlash(segs) ==
    IF segs = <<>> THEN <<>> ELSE <<"/">> \o Head(segs) \o JoinSlash(Tail(segs))

(***************************************************************************)
(* decodeURIComponent.  A "%" must be followed by two hex digits; a byte   *)
(* below 0x80 is the ASCII character of that code; a byte from 0x80 on     *)
(* that is not part of a well-formed UTF-8 sequence raises URIError (the   *)
(* enumerated requests hold no multi-byte sequence).                       *)
(***************************************************************************)
HexDigits == <<"0", "1", "2", "3", "4", "5", "6", "7", "8", "9",
               "a", "b", "c", "d", "e", "f">>

LowerHex(c) ==
    CASE c = "A" -> "a" [] c = "B" -> "b" [] c = "C" -> "c"
      [] c = "D" -> "d" [] c = "E" -> "e" [] c = "F" -> "f" [] OTHER -> c

IsHex(c) == \E i \in 1..16 : HexDigits[i] = LowerHex(c)

HexVal(c) == (CHOOSE i \in 1..16 : HexDigits[i] = LowerHex(c)) - 1

\* printable ASCII, codes 32..126
AsciiTable ==
    <<" ", "!", "\"", "#", "$", "%", "&", "'", "(", ")", "*", "+", ",", "-", ".", "/",
      "0", "1", "2", "3", "4", "5", "6", "7", "8", "9", ":", ";", "<", "=", ">", "?",
      "@", "A", "B", "C", "D", "E", "F", "G", "H", "I", "J", "K", "L", "M", "N", "O",
      "P", "Q", "R", "S", "T", "U", "V", "W", "X", "Y", "Z", "[", "\\", "]", "^", "_",
      "grave", "a", "b", "c", "d", "e", "f", "g", "h", "i", "j", "k", "l", "m", "n", "o",
      "p", "q", "r", "s", "t", "u", "v", "w", "x", "y", "z", "{", "|", "}", "~">>

\* a control character stands under the name "ctl", the grave accent (code 96)
\* under the name "grave"
AsciiChar(b) == IF b >= 32 /\ b <= 126 THEN AsciiTable[b - 31] ELSE "ctl"

URIError == [ok |-> FALSE, val |-> <<>>]

RECURSIVE DecodeAcc(_, _)
DecodeAcc(s, acc) ==
    IF s = <<>> THEN [ok |-> TRUE, val |-> acc]
    ELSE IF Head(s) # "%" THEN DecodeAcc(Tail(s), Append(acc, Head(s)))
    ELSE IF Len(s) < 3 THEN URIError
    ELSE IF ~IsHex(s[2]) \/ ~IsHex(s[3]) THEN URIError
    ELSE LET b == 16 * HexVal(s[2]) + HexVal(s[3])
         IN  IF b >= 128 THEN URIError
             ELSE DecodeAcc(SubSeq(s, 4, Len(s)), Append(acc, AsciiChar(b)))

decodeURIComponent(s) == DecodeAcc(s, <<>>)

(***************************************************************************)
(* new URL(req.url).pathname.  The URL parser removes dot segments from    *)
(* the path of the request target: a single-dot segment is "." or "%2e", a *)
(* double-dot segment is "..", ".%2e", "%2e." or "%2e%2e" (hex digits in   *)
(* either case); a double-dot segment also removes the segment before it;  *)
(* a dot segment at the end of the path leaves an empty last segment.      *)
(* Nothing is percent-decoded and empty segments are kept.                 *)
(***************************************************************************)
LowerHexStr(s) == [i \in 1..Len(s) |-> LowerHex(s[i])]

IsSingleDot(seg) == LowerHexStr(seg) \in {<<".">>, <<"%", "2", "e">>}

IsDoubleDot(seg) ==
    LowerHexStr(seg) \in {<<".", ".">>, <<".", "%", "2", "e">>,
                          <<"%", "2", "e", ".">>, <<"%", "2", "e", "%", "2", "e">>}

Shorten(path) == IF path = <<>> THEN path ELSE DropLast(path)

RECURSIVE UrlPathAcc(_, _)
UrlPathAcc(segs, path) ==
    IF segs = <<>> THEN path
    ELSE LET b == Head(segs)
             last == Len(segs) = 1
         IN  IF IsDoubleDot(b)
             THEN UrlPathAcc(Tail(segs),
                             IF last THEN Append(Shorten(path), <<>>) ELSE Shorten(path))
             ELSE IF IsSingleDot(b)
             THEN UrlPathAcc(Tail(segs), IF last THEN Append(path, <<>>) ELSE path)
             ELSE UrlPathAcc(Tail(segs), Append(path, b))

\* target is the path of the request target and starts with "/"
UrlPathname(target) == JoinSlash(UrlPathAcc(Tail(Split(target)), <<>>))

(***************************************************************************)
(* path.resolve on POSIX, on paths held as sequences of names: a segment   *)
(* that starts with "/" is absolute and discards the base; "." and empty   *)
(* names are dropped and ".." removes the name before it.                  *)
(***************************************************************************)
RECURSIVE NormalizeNames(_, _)
NormalizeNames(names, acc) ==
    IF names = <<>> THEN acc
    ELSE LET h == Head(names)
         IN  IF h = <<>> \/ h = <<".">> THEN NormalizeNames(Tail(names), acc)
             ELSE IF h = <<".", ".">> THEN NormalizeNames(Tail(names), Shorten(acc))
             ELSE NormalizeNames(Tail(names), Append(acc, h))

Resolve(base, segment) ==
    IF StartsWith(segment, <<"/">>) THEN NormalizeNames(Split(segment), <<>>)
    ELSE NormalizeNames(base \o Split(segment), <<>>)

RECURSIVE ResolveAll(_, _)
ResolveAll(base, segments) ==
    IF segments = <<>> THEN base
    ELSE ResolveAll(Resolve(base, Head(segments)), Tail(segments))

\* filePath.startsWith(root + sep): root is a proper prefix of filePath
StrictlyUnder(filePath, root) ==
    Len(filePath) > Len(root) /\ SubSeq(filePath, 1, Len(root)) = root

(***************************************************************************)
(* The file system: a function from absolute paths to nodes.  A node is a  *)
(* directory, a regular file or a symbolic link with an absolute target.   *)
(* The path <<>> is the directory "/".                                     *)
(***************************************************************************)
Dir == [kind |-> "dir", target |-> <<>>]

File == [kind |-> "file", target |-> <<>>]

Link(t) == [kind |-> "link", target |-> t]

NoNode == [kind |-> "none", target |-> <<>>]

Node(fs, p) == IF p = <<>> THEN Dir ELSE IF p \in DOMAIN fs THEN fs[p] ELSE NoNode

ENOENT == [ok |-> FALSE, path |-> <<>>]

RECURSIVE Walk(_, _, _, _, _)
\* Path resolution of the kernel: every component but the last is followed
\* when it is a symbolic link; the last one is followed only by stat.
Walk(fs, cur, rest, follow, fuel) ==
    IF rest = <<>> THEN [ok |-> TRUE, path |-> cur]
    ELSE LET p == Append(cur, Head(rest))
             last == Len(rest) = 1
         IN  IF Node(fs, p).kind = "none" THEN ENOENT
             ELSE IF Node(fs, p).kind = "link"
             THEN IF last /\ ~follow THEN [ok |-> TRUE, path |-> p]
                  ELSE IF fuel = 0 THEN ENOENT
                  ELSE Walk(fs, <<>>, Node(fs, p).target \o Tail(rest), follow, fuel - 1)
             ELSE IF Node(fs, p).kind = "file" /\ ~last THEN ENOENT
             ELSE Walk(fs, p, Tail(rest), follow, fuel)

\* the kind of the node a resolution ended at, "none" when it failed
KindAt(fs, w) == IF w.ok THEN Node(fs, w.path).kind ELSE "none"

\* lstatSync(path): the kind of the node, "none" when it throws
Lstat(fs, path) == KindAt(fs, Walk(fs, <<>>, path, FALSE, MaxLinks))

\* the file that Bun.file(path) opens: path with every link followed
RealPath(fs, path) == Walk(fs, <<>>, path, TRUE, MaxLinks)

\* file.stat(): the kind of the node that path leads to, "none" when it throws
Stat(fs, path) == KindAt(fs, RealPath(fs, path))

(***************************************************************************)
(* staticAssets: the guard.  AssetsRoot is resolve(process.cwd(),          *)
(* 'public/assets'), here /w/r, and the URL prefix is the default /assets. *)
(***************************************************************************)
AssetsRoot == <<<<"w">>, <<"r">>>>

NormalizedPrefix == <<"/", "a", "s", "s", "e", "t", "s">>

\* a response; file is the path streamed (<<>> when none), allow the value
\* of the Allow header as a list of methods (<<>> when the header is absent)
Response(status, origin) ==
    [status |-> status, origin |-> origin, file |-> <<>>, allow |-> <<>>,
     hasBody |-> TRUE, cors |-> FALSE]

NoResponse == Response(0, "none")

\* the prefix test of the guard (its first 404)
UnderPrefix(pathname) ==
    StartsWith(pathname, NormalizedPrefix \o <<"/">>) /\ pathname # NormalizedPrefix

RawSegments(pathname) ==
    FilterBoolean(Split(Slice(pathname, Len(NormalizedPrefix) + 1)))

\* variant of Rejected: a "/" in the decoded segment is let through
RejectedNoSeparator(decoded) ==
    \/ decoded = <<".", ".">>
    \/ decoded = <<".">>
    \/ Includes(decoded, "\\")

\* the test of one decoded segment
Rejected(decoded) ==
    \/ decoded = <<".", ".">>
    \/ decoded = <<".">>
    \/ Includes(decoded, "/")
    \/ Includes(decoded, "\\")

\* variant of SegmentStatus: every segment that decodes is kept
SegmentStatusKeepsAll(d) == IF ~d.ok THEN 400 ELSE 0

\* variant of SegmentStatus: a decode failure is answered like a rejection
SegmentStatusHidesError(d) ==
    IF ~d.ok THEN 404
    ELSE IF Rejected(d.val) THEN 404
    ELSE 0

\* the body of the decoding loop, given the outcome d of decodeURIComponent
\* on the segment: 0 when the segment is kept, else the status returned
SegmentStatus(d) ==
    IF ~d.ok THEN 400
    ELSE IF Rejected(d.val) THEN 404
    ELSE 0

RECURSIVE DecodeSegments(_, _)
DecodeStep(raw, parts, d) ==
    IF SegmentStatus(d) # 0 THEN [status |-> SegmentStatus(d), parts |-> <<>>]
    ELSE DecodeSegments(Tail(raw), Append(parts, d.val))

\* the decoding loop: the status of the first segment that is not kept, or
\* 0 and the decoded segments
DecodeSegments(raw, parts) ==
    IF raw = <<>> THEN [status |-> 0, parts |-> parts]
    ELSE DecodeStep(raw, parts, decodeURIComponent(Head(raw)))

RECURSIVE LstatLoop(_, _, _)
\* variant of LstatStep: the step is stat-ed, which follows a link
LstatStepFollows(fs, filePath, parts) ==
    IF Stat(fs, filePath) \in {"none", "link"} THEN FALSE
    ELSE LstatLoop(fs, filePath, Tail(parts))

LstatStep(fs, filePath, parts) ==
    IF Lstat(fs, filePath) \in {"none", "link"} THEN FALSE
    ELSE LstatLoop(fs, filePath, Tail(parts))

\* the resolution loop: TRUE when every step is lstat-ed and is no link
LstatLoop(fs, currentPath, parts) ==
    IF parts = <<>> THEN TRUE
    ELSE LstatStep(fs, Resolve(currentPath, Head(parts)), parts)

Pending(filePath) == [status |-> 0, filePath |-> filePath]

Refused(status) == [status |-> status, filePath |-> <<>>]

\* the containment test on the resolved path
CheckResolved(filePath) ==
    IF ~StrictlyUnder(filePath, AssetsRoot) /\ filePath # AssetsRoot THEN Refused(404)
    ELSE Pending(filePath)

\* the guard from the decoded segments to the containment test
CheckDecoded(fs, dec) ==
    IF dec.status # 0 THEN Refused(dec.status)
    ELSE IF dec.parts = <<>> THEN Refused(404)
    ELSE IF ~LstatLoop(fs, AssetsRoot, dec.parts) THEN Refused(404)
    ELSE CheckResolved(ResolveAll(AssetsRoot, dec.parts))

\* the guard up to the await of file.stat(): either the status it answers
\* with, or status 0 and the path about to be stat-ed
GuardChecks(fs, pathname) ==
    IF ~UnderPrefix(pathname) THEN Refused(404)
    ELSE CheckDecoded(fs, DecodeSegments(RawSegments(pathname), <<>>))

\* the guard from file.stat() on: 404, or 200 with the file streamed
GuardStream(fs, filePath) ==
    IF Stat(fs, filePath) # "file" THEN Response(404, "static")
    ELSE [Response(200, "static") EXCEPT !.file = filePath]

GuardAnswer(fs, g) ==
    IF g.status # 0 THEN Response(g.status, "static")
    ELSE GuardStream(fs, g.filePath)

\* the handler returned by staticAssets, over an unchanged file system
staticAssets(fs, pathname) == GuardAnswer(fs, GuardChecks(fs, pathname))

(***************************************************************************)
(* The route matcher (loadRoutes.ts).  A route table is the sequence of    *)
(* its entries in the iteration order of Object.entries (insertion order); *)
(* an entry is a route path and its handlers, a function from method keys  *)
(* to handlers.  Params are a function from names to decoded values.       *)
(***************************************************************************)
\* variant of normalizePathname: the pathname is kept as it is
KeepPathname(pathname) == pathname

normalizePathname(pathname) ==
    IF Len(pathname) > 1 /\ EndsWith(pathname, <<"/">>) THEN DropLast(pathname)
    ELSE pathname

NoParams == [n \in {} |-> <<>>]

\* params[name] = value
Bind(params, name, value) ==
    [n \in DOMAIN params \cup {name} |-> IF n = name THEN value ELSE params[n]]

\* variant of BindDecoded: a value of ".." is refused as the guard refuses it
BindRejectsDots(routeSegment, pathSegment, decoded, params) ==
    IF ~decoded.ok THEN [ok |-> FALSE, params |-> params]
    ELSE IF decoded.val = <<".", ".">> THEN [ok |-> FALSE, params |-> params]
    ELSE [ok |-> TRUE, params |-> Bind(params, Slice(routeSegment, 1), decoded.val)]

\* variant of BindDecoded: a segment that does not decode is bound as sent
BindMalformed(routeSegment, pathSegment, decoded, params) ==
    IF ~decoded.ok
    THEN [ok |-> TRUE, params |-> Bind(params, Slice(routeSegment, 1), pathSegment)]
    ELSE [ok |-> TRUE, params |-> Bind(params, Slice(routeSegment, 1), decoded.val)]

\* variant of BindDecoded: the name is bound to the segment as sent
BindUndecoded(routeSegment, pathSegment, decoded, params) ==
    IF ~decoded.ok THEN [ok |-> FALSE, params |-> params]
    ELSE [ok |-> TRUE, params |-> Bind(params, Slice(routeSegment, 1), pathSegment)]

\* the parameter branch of segmentMatches, given the outcome of decoding
BindDecoded(routeSegment, pathSegment, decoded, params) ==
    IF ~decoded.ok THEN [ok |-> FALSE, params |-> params]
    ELSE [ok |-> TRUE, params |-> Bind(params, Slice(routeSegment, 1), decoded.val)]

segmentMatches(routeSegment, pathSegment, params) ==
    IF StartsWith(routeSegment, <<":">>)
    THEN BindDecoded(routeSegment, pathSegment, decodeURIComponent(pathSegment), params)
    ELSE [ok |-> routeSegment = pathSegment, params |-> params]

RECURSIVE MatchSegments(_, _, _)
MatchStep(routeSegments, pathSegments, m) ==
    IF ~m.ok THEN [ok |-> FALSE, params |-> NoParams]
    ELSE MatchSegments(Tail(routeSegments), Tail(pathSegments), m.params)

\* the loop of matchPath over segments of equal number
MatchSegments(routeSegments, pathSegments, params) ==
    IF routeSegments = <<>> THEN [ok |-> TRUE, params |-> params]
    ELSE MatchStep(routeSegments, pathSegments,
                   segmentMatches(Head(routeSegments), Head(pathSegments), params))

\* normalizePathname(path).split('/').filter(Boolean)
PathSegments(path) == FilterBoolean(Split(normalizePathname(path)))

MatchSplit(routeSegments, pathSegments) ==
    IF Len(routeSegments) # Len(pathSegments) THEN [ok |-> FALSE, params |-> NoParams]
    ELSE MatchSegments(routeSegments, pathSegments, NoParams)

\* ok is FALSE where the code returns null
matchPath(routePath, pathname) ==
    MatchSplit(PathSegments(routePath), PathSegments(pathname))

NoHandlers == [m \in {} |-> ""]

NoMatch == [found |-> FALSE, routePath |-> <<>>, handlers |-> NoHandlers,
            params |-> NoParams]

RECURSIVE ParamScan(_, _, _)
ScanStep(routes, i, pathname, m) ==
    IF m.ok
    THEN [found |-> TRUE, routePath |-> routes[i].routePath,
          handlers |-> routes[i].handlers, params |-> m.params]
    ELSE ParamScan(routes, i + 1, pathname)

\* the loop of matchRoute over the parameterized routes, from entry i on
ParamScan(routes, i, pathname) ==
    IF i > Len(routes) THEN NoMatch
    ELSE IF ~Includes(routes[i].routePath, ":") THEN ParamScan(routes, i + 1, pathname)
    ELSE ScanStep(routes, i, pathname, matchPath(routes[i].routePath, pathname))

\* routes[key]: the entries whose route path is key (at most one)
Lookup(routes, key) == {i \in 1..Len(routes) : routes[i].routePath = key}

\* variant of MatchNormalized: the parameterized routes are tried first
MatchParamFirst(routes, normalizedPathname) ==
    IF ParamScan(routes, 1, normalizedPathname).found
    THEN ParamScan(routes, 1, normalizedPathname)
    ELSE IF Lookup(routes, normalizedPathname) # {}
    THEN [found |-> TRUE, routePath |-> normalizedPathname,
          handlers |-> routes[CHOOSE i \in Lookup(routes, normalizedPathname) : TRUE].handlers,
          params |-> NoParams]
    ELSE NoMatch

\* matchRoute from the normalized pathname on
MatchNormalized(routes, normalizedPathname) ==
    IF Lookup(routes, normalizedPathname) # {}
    THEN [found |-> TRUE, routePath |-> normalizedPathname,
          handlers |-> routes[CHOOSE i \in Lookup(routes, normalizedPathname) : TRUE].handlers,
          params |-> NoParams]
    ELSE ParamScan(routes, 1, normalizedPathname)

matchRoute(routes, pathname) == MatchNormalized(routes, normalizePathname(pathname))

\* a request: its method, the path of its URL as sent, and the params
\* property (absent on a request that comes from the network)
Request(method, target) ==
    [method |-> method, target |-> target, hasParams |-> FALSE, params |-> NoParams]

NoRequest == Request("", <<>>)

\* method.toUpperCase() on the method names of HTTP
toUpperCase(m) ==
    CASE m = "get" -> "GET" [] m = "head" -> "HEAD" [] m = "post" -> "POST"
      [] m = "put" -> "PUT" [] m = "delete" -> "DELETE" [] m = "patch" -> "PATCH"
      [] m = "options" -> "OPTIONS" [] OTHER -> m

addRouteParamsToRequest(req, params) ==
    IF DOMAIN params = {} THEN req
    ELSE [req EXCEPT !.hasParams = TRUE, !.params = params]

NoResolved == [found |-> FALSE, handler |-> "", params |-> NoParams,
               routePath |-> <<>>, request |-> NoRequest]

\* resolveRoute from the match on
ResolveMethod(req, method, match) ==
    IF ~match.found THEN NoResolved
    ELSE IF method \notin DOMAIN match.handlers THEN NoResolved
    ELSE [found |-> TRUE, handler |-> match.handlers[method],
          params |-> match.params, routePath |-> match.routePath,
          request |-> addRouteParamsToRequest(req, match.params)]

resolveRoute(routes, req) ==
    ResolveMethod(req, toUpperCase(req.method),
                  matchRoute(routes, normalizePathname(UrlPathname(req.target))))

(***************************************************************************)
(* The CORS middleware (cors.ts).  An origin setting is absent (the        *)
(* default applies), undefined, a string (val) or an array of strings     *)
(* (list).  The                                                            *)
(* file declares corsHeaders twice: at lines 18-30, where an array is      *)
(* joined, and at lines 72-87, where resolveOrigin picks one origin.       *)
(***************************************************************************)
RECURSIVE JoinComma(_)
\* origins.join(', ')
JoinComma(origins) ==
    IF origins = <<>> THEN <<>>
    ELSE IF Len(origins) = 1 THEN Head(origins)
    ELSE Head(origins) \o <<",", " ">> \o JoinComma(Tail(origins))

\* opts.origin of { ...defaultOptions, ...options }
OptsOrigin(configured) ==
    IF configured.kind = "absent" THEN [kind |-> "string", val |-> <<"*">>, list |-> <<>>]
    ELSE configured

\* Access-Control-Allow-Origin of the first corsHeaders (lines 18-30)
corsHeadersJoin(configured) ==
    IF configured.kind = "array"
    THEN (IF JoinComma(configured.list) = <<>> THEN <<"*">> ELSE JoinComma(configured.list))
    ELSE IF configured.kind = "undefined" \/ configured.val = <<>> THEN <<"*">>
    ELSE configured.val

\* requestOrigin is null when has is FALSE
resolveOrigin(configured, requestOrigin) ==
    IF configured.kind = "undefined" THEN <<"*">>
    ELSE IF configured.kind = "string"
    THEN (IF configured.val = <<>> THEN <<"*">> ELSE configured.val)
    ELSE IF requestOrigin.has /\ requestOrigin.val # <<>>
            /\ Includes(configured.list, requestOrigin.val)
    THEN requestOrigin.val
    ELSE IF configured.list = <<>> THEN <<"*">> ELSE configured.list[1]

\* Access-Control-Allow-Origin of the second corsHeaders (lines 72-87)
corsHeaders(configured, requestOrigin) == resolveOrigin(configured, requestOrigin)

NoHeaders == [called |-> FALSE, declared |-> 0, allowOrigin |-> <<>>]

(***************************************************************************)
(* The fetch pipeline (index.ts).                                          *)
(***************************************************************************)
\* the method names in alphabetical order
Alphabetical == <<"DELETE", "GET", "HEAD", "OPTIONS", "PATCH", "POST", "PUT">>

\* keys.sort(): the methods of the set, in alphabetical order
Sorted(methods) == SelectSeq(Alphabetical, LAMBDA m : m \in methods)

\* sorted, and HEAD pushed when GET is a key and HEAD is not
PushHead(keys) ==
    IF "GET" \in keys /\ "HEAD" \notin keys THEN Append(Sorted(keys), "HEAD")
    ELSE Sorted(keys)

\* the value of the Allow header of a 405
allowedMethods(handlers) == PushHead({toUpperCase(m) : m \in DOMAIN handlers})

\* addCors copies status and headers and sets the CORS headers
addCors(response) == [response EXCEPT !.cors = TRUE]

\* corsResponse(): the answer to a preflight
corsResponse == [Response(204, "preflight") EXCEPT !.hasBody = FALSE]

NoCall == [via |-> "none", routePath |-> <<>>, key |-> "", handler |-> "",
           request |-> NoRequest]

\* A route handler is a callable of the application.  Two kinds are
\* enumerated: "plain" answers 200 whatever the request holds (the health
\* handler); "params" reads req.params as the documented handlers of
\* parameterized routes do (const { id } = req.params) and so throws when
\* the request has no params property; the server answers a thrown error
\* with 500.
HandlerResponse(handler, request) ==
    IF handler = "params" /\ ~request.hasParams THEN Response(500, "error")
    ELSE Response(200, "handler")

\* fetch from the outcomes of resolveRoute and matchRoute on: the handler
\* to call, or the 405 or 404
RouteOutcome(req, resolved, routeMatch) ==
    IF resolved.found
    THEN [call |-> [via |-> "resolved", routePath |-> resolved.routePath,
                    key |-> toUpperCase(req.method), handler |-> resolved.handler,
                    request |-> resolved.request],
          resp |-> NoResponse]
    ELSE IF routeMatch.found
    THEN IF req.method = "HEAD" /\ "GET" \in DOMAIN routeMatch.handlers
         THEN [call |-> [via |-> "head", routePath |-> routeMatch.routePath,
                         key |-> "GET", handler |-> routeMatch.handlers["GET"],
                         request |-> Request("GET", req.target)],
               resp |-> NoResponse]
         ELSE [call |-> NoCall,
               resp |-> addCors([Response(405, "405") EXCEPT
                                   !.allow = allowedMethods(routeMatch.handlers)])]
    ELSE [call |-> NoCall, resp |-> addCors(Response(404, "404"))]

\* the route stage of fetch; pathname is url.pathname
RouteStage(routes, req, pathname) ==
    RouteOutcome(req, resolveRoute(routes, req), matchRoute(routes, pathname))

\* the response fetch builds from the response of the handler it called
Finish(call, response) ==
    IF response.origin = "error" THEN response
    ELSE IF call.via = "head"
    THEN addCors([response EXCEPT !.origin = "head", !.hasBody = FALSE])
    ELSE addCors(response)

NoMatchCall == [called |-> FALSE, pathname |-> <<>>, result |-> NoMatch]

(***************************************************************************)
(* The enumerated inputs: file-system layouts under /w, route tables as    *)
(* loadRoutes builds them (keys "/" or "/" + segments joined by "/"), and  *)
(* requests.                                                               *)
(***************************************************************************)
\* names: r the assets root, o a directory beside it, s a file, f a file,
\* a a directory, l a link (or a directory)
InRoot(names) == AssetsRoot \o names

Outside == <<<<"w">>, <<"o">>>>

Secret == <<<<"w">>, <<"o">>, <<"s">>>>

BaseFs ==
    (<<<<"w">>>> :> Dir) @@ (AssetsRoot :> Dir) @@ (Outside :> Dir) @@ (Secret :> File)
    @@ (InRoot(<<<<"f">>>>) :> File) @@ (InRoot(<<<<"a">>>>) :> Dir)
    @@ (InRoot(<<<<"a">>, <<"f">>>>) :> File)

\* l is a link to a directory outside the root
FsLinkDir == BaseFs @@ (InRoot(<<<<"l">>>>) :> Link(Outside))

\* l is a link to a regular file inside the root
FsLinkFile == BaseFs @@ (InRoot(<<<<"l">>>>) :> Link(InRoot(<<<<"f">>>>)))

\* l is a directory that holds the file s
FsPlain ==
    BaseFs @@ (InRoot(<<<<"l">>>>) :> Dir) @@ (InRoot(<<<<"l">>, <<"s">>>>) :> File)

FsLayouts == {FsLinkDir, FsLinkFile, FsPlain}

Entry(routePath, handlers) == [routePath |-> routePath, handlers |-> handlers]

\* /, /i {GET, POST}, /i/:d before /i/n
TableParamFirst ==
    <<Entry(<<"/">>, "GET" :> "plain"),
      Entry(<<"/", "i">>, ("GET" :> "plain") @@ ("POST" :> "plain")),
      Entry(<<"/", "i", "/", ":", "d">>, ("GET" :> "params") @@ ("DELETE" :> "params")),
      Entry(<<"/", "i", "/", "n">>, "GET" :> "plain")>>

\* /i/n before the parameterized routes; /:d/:d repeats a name
TableExactFirst ==
    <<Entry(<<"/", "i", "/", "n">>, "POST" :> "plain"),
      Entry(<<"/", ":", "x">>, "POST" :> "params"),
      Entry(<<"/", "i">>, "GET" :> "plain"),
      Entry(<<"/", ":", "d", "/", ":", "d">>, ("GET" :> "params") @@ ("HEAD" :> "plain"))>>

\* a route under /assets, a route with a parameter between literals, and
\* after it a route below a directory whose name is no valid encoding
TableAssets ==
    <<Entry(<<"/", "a", "s", "s", "e", "t", "s", "/", ":", "d">>, "GET" :> "params"),
      Entry(<<"/", "i", "/", ":", "d", "/", "n">>,
            ("PUT" :> "plain") @@ ("GET" :> "plain") @@ ("OPTIONS" :> "plain")),
      Entry(<<"/", "i", "/", "%", "z", "z", "/", ":", "y">>, "GET" :> "params"),
      Entry(<<"/", "n">>, ("PATCH" :> "plain") @@ ("DELETE" :> "plain"))>>

RouteTables == {TableParamFirst, TableExactFirst, TableAssets}

Methods == {"GET", "HEAD", "POST", "DELETE", "OPTIONS"}

\* non-empty sequences over S of length at most n
SeqsUpTo(S, n) == UNION {[1..k -> S] : k \in 1..n}

\* the pieces that the enumerated targets under /assets are put together
\* from; the last one spans two segments, a directory and an encoding of
\* ".." that leads back out of it
AssetTokens ==
    {<<"f">>, <<"a">>, <<"l">>, <<"s">>, <<>>,
     <<".", ".">>, <<"%", "2", "e", "%", "2", "e">>, <<".", "%", "2", "E">>, <<".">>,
     <<"%", "2", "f">>, <<"%", "5", "c">>, <<"%", "z", "z">>,
     <<"a", "%", "2", "f", "f">>, <<"l", "%", "2", "f", "s">>,
     <<"a", "/", "%", "2", "e", "%", "2", "e">>}

RouteTokens ==
    {<<"i">>, <<"n">>, <<"4">>, <<"%", "3", "4">>, <<"%", "z", "z">>, <<>>,
     <<"%", "2", "e", "%", "2", "e">>, <<":", "d">>}

AssetTargets ==
    {JoinSlash(<<<<"a", "s", "s", "e", "t", "s">>>> \o segs) :
        segs \in SeqsUpTo(AssetTokens, MaxAssetSegs)}

RouteTargets == {JoinSlash(segs) : segs \in SeqsUpTo(RouteTokens, MaxRouteSegs)}

Requests == {Request(m, t) : m \in Methods, t \in AssetTargets \cup RouteTargets}

(***************************************************************************)
(* The route builder (loadRoutes.ts).  The routes directory is the list of *)
(* entries that readdirSync(rootDir, {recursive, withFileTypes}) returns:  *)
(* parentPath is the directory of the entry as the names that lead to it   *)
(* from the routes root, kind is "file" or "dir", and module is what       *)
(* import() of the file yields: "plain" and "params" are handler           *)
(* functions, "component" is a React component, "object" is a default      *)
(* export that is neither, "throws" is a module whose import throws.       *)
(***************************************************************************)
DirEntry(parentPath, name, kind, module) ==
    [parentPath |-> parentPath, name |-> name, kind |-> kind, module |-> module]

\* /\.(js|ts|jsx|tsx)$/.test(name)
SourceExtension(name) ==
    \/ EndsWith(name, <<".", "j", "s">>)
    \/ EndsWith(name, <<".", "t", "s">>)
    \/ EndsWith(name, <<".", "j", "s", "x">>)
    \/ EndsWith(name, <<".", "t", "s", "x">>)

\* variant of IsRouteFile: a leading underscore does not exclude a file
IsRouteFileAnyPrefix(entry) ==
    /\ entry.kind = "file"
    /\ SourceExtension(entry.name)

\* the test of scanDirectoryForRoutes on an entry
IsRouteFile(entry) ==
    /\ entry.kind = "file"
    /\ SourceExtension(entry.name)
    /\ ~StartsWith(entry.name, <<"_">>)

\* the key of dirMap that the entry is filed under
DirPathOf(entry) ==
    IF entry.kind = "dir" THEN Append(entry.parentPath, entry.name)
    ELSE entry.parentPath

RECURSIVE DirKeys(_, _)
\* the keys of dirMap in the order of their insertion
DirKeys(entries, keys) ==
    IF entries = <<>> THEN keys
    ELSE IF Includes(keys, DirPathOf(Head(entries))) THEN DirKeys(Tail(entries), keys)
    ELSE DirKeys(Tail(entries), Append(keys, DirPathOf(Head(entries))))

\* dirMap.get(dirPath)
FilesOf(entries, dirPath) ==
    SelectSeq(entries, LAMBDA e : DirPathOf(e) = dirPath /\ IsRouteFile(e))

RECURSIVE JoinNames(_)
\* relative(rootDir, dirPath): the names joined by the separator
JoinNames(names) ==
    IF names = <<>> THEN <<>>
    ELSE IF Len(names) = 1 THEN Head(names)
    ELSE Head(names) \o <<"/">> \o JoinNames(Tail(names))

RECURSIVE SplitSeparators(_, _, _)
\* s.split(/[/\\]/)
SplitSeparators(s, cur, acc) ==
    IF s = <<>> THEN Append(acc, cur)
    ELSE IF Head(s) \in {"/", "\\"} THEN SplitSeparators(Tail(s), <<>>, Append(acc, cur))
    ELSE SplitSeparators(Tail(s), Append(cur, Head(s)), acc)

\* variant of RouteSegment: the segment is kept as it is
KeepSegment(segment) == segment

\* segment.startsWith('$') ? `:${segment.substring(1)}` : segment
RouteSegment(segment) ==
    IF StartsWith(segment, <<"$">>) THEN <<":">> \o Slice(segment, 1) ELSE segment

RouteSegments(dirPath) ==
    FilterBoolean(SplitSeparators(JoinNames(dirPath), <<>>, <<>>))

\* '/' + segments.map(...).join('/')
RoutePathOf(dirPath) ==
    IF RouteSegments(dirPath) = <<>> THEN <<"/">>
    ELSE JoinSlash([i \in 1..Len(RouteSegments(dirPath)) |->
                        RouteSegment(RouteSegments(dirPath)[i])])

LowerLetters == <<"a", "b", "c", "d", "e", "f", "g", "h", "i", "j", "k", "l", "m",
                  "n", "o", "p", "q", "r", "s", "t", "u", "v", "w", "x", "y", "z">>

UpperLetters == <<"A", "B", "C", "D", "E", "F", "G", "H", "I", "J", "K", "L", "M",
                  "N", "O", "P", "Q", "R", "S", "T", "U", "V", "W", "X", "Y", "Z">>

UpperChar(c) ==
    IF Includes(LowerLetters, c)
    THEN UpperLetters[CHOOSE k \in 1..26 : LowerLetters[k] = c]
    ELSE c

\* s.toUpperCase() on a string held as characters
UpperChars(s) == [i \in 1..Len(s) |-> UpperChar(s[i])]

\* the first index of a "." that a character follows, 0 when there is none
FirstDot(s) ==
    IF \E i \in 1..(Len(s) - 1) : s[i] = "."
    THEN CHOOSE i \in 1..(Len(s) - 1) :
            s[i] = "." /\ \A j \in 1..(i - 1) : s[j] # "."
    ELSE 0

\* s.replace(/\..+/i, '')
DropFromDot(s) == IF FirstDot(s) = 0 THEN s ELSE SubSeq(s, 1, FirstDot(s) - 1)

\* basename(fileName).replace(/\..+/i, '').toUpperCase()
MethodOf(fileName) == UpperChars(DropFromDot(fileName))

HTTP_METHODS == <<"GET", "POST", "PUT", "DELETE", "PATCH", "OPTIONS", "HEAD">>

\* the characters of a method name
Spelling(method) ==
    CASE method = "GET" -> <<"G", "E", "T">>
      [] method = "POST" -> <<"P", "O", "S", "T">>
      [] method = "PUT" -> <<"P", "U", "T">>
      [] method = "DELETE" -> <<"D", "E", "L", "E", "T", "E">>
      [] method = "PATCH" -> <<"P", "A", "T", "C", "H">>
      [] method = "OPTIONS" -> <<"O", "P", "T", "I", "O", "N", "S">>
      [] method = "HEAD" -> <<"H", "E", "A", "D">>

\* HTTP_METHODS.includes(method)
IsHttpMethod(chars) == \E k \in 1..Len(HTTP_METHODS) : Spelling(HTTP_METHODS[k]) = chars

MethodKey(chars) ==
    HTTP_METHODS[CHOOSE k \in 1..Len(HTTP_METHODS) : Spelling(HTTP_METHODS[k]) = chars]

isRouteHandler(module) == module \in {"plain", "params", "component"}

isReactComponent(module) == module = "component"

\* the handler processFile returns for a module it accepts
HandlerOf(module) == IF isReactComponent(module) THEN "react" ELSE module

NoHandler == [method |-> "", handler |-> ""]

\* processFile once the module is imported: [method, handler], or
\* NoHandler where the code returns null
ProcessModule(method, module) ==
    IF module = "throws" THEN NoHandler
    ELSE IF method = <<"I", "N", "D", "E", "X">>
    THEN IF ~isReactComponent(module) /\ ~isRouteHandler(module) THEN NoHandler
         ELSE [method |-> "GET", handler |-> HandlerOf(module)]
    ELSE IF IsHttpMethod(method)
    THEN IF ~isReactComponent(module) /\ ~isRouteHandler(module) THEN NoHandler
         ELSE [method |-> MethodKey(method), handler |-> HandlerOf(module)]
    ELSE NoHandler

processFile(entry) == ProcessModule(MethodOf(entry.name), entry.module)

\* variant of SetHandler: a file that gives no handler ends the directory
SetHandlerAborts(handlers, result) ==
    IF result = NoHandler THEN NoHandlers
    ELSE [m \in DOMAIN handlers \cup {result.method} |->
             IF m = result.method THEN result.handler ELSE handlers[m]]

\* methodHandlers[method] = handler
SetHandler(handlers, result) ==
    IF result = NoHandler THEN handlers
    ELSE [m \in DOMAIN handlers \cup {result.method} |->
             IF m = result.method THEN result.handler ELSE handlers[m]]

RECURSIVE processDirectory(_, _)
processDirectory(files, methodHandlers) ==
    IF files = <<>> THEN methodHandlers
    ELSE processDirectory(Tail(files), SetHandler(methodHandlers, processFile(Head(files))))

\* routes[routePath] = handlers: a key that exists keeps its place
SetRoute(table, routePath, handlers) ==
    IF Lookup(table, routePath) = {} THEN Append(table, Entry(routePath, handlers))
    ELSE [i \in 1..Len(table) |->
             IF table[i].routePath = routePath THEN Entry(routePath, handlers)
             ELSE table[i]]

\* variant of ScanDirectory: the route is stored whatever its handlers
ScanDirectoryKeepsEmpty(table, dirPath, handlers) ==
    SetRoute(table, RoutePathOf(dirPath), handlers)

\* the body of the loop over dirMap
ScanDirectory(table, dirPath, handlers) ==
    IF DOMAIN handlers = {} THEN table
    ELSE SetRoute(table, RoutePathOf(dirPath), handlers)

RECURSIVE ScanKeys(_, _, _)
ScanKeys(entries, keys, table) ==
    IF keys = <<>> THEN table
    ELSE IF FilesOf(entries, Head(keys)) = <<>> THEN ScanKeys(entries, Tail(keys), table)
    ELSE ScanKeys(entries, Tail(keys),
                  ScanDirectory(table, Head(keys),
                                processDirectory(FilesOf(entries, Head(keys)), NoHandlers)))

scanDirectoryForRoutes(entries) == ScanKeys(entries, DirKeys(entries, <<>>), <<>>)

\* variant of WithDefault: the default route is added when "/" has no entry
WithDefaultForRoot(table) ==
    IF Lookup(table, <<"/">>) = {}
    THEN Append(table, Entry(<<"/">>, "GET" :> "default"))
    ELSE table

\* the table with the default route when the scan found none
WithDefault(table) ==
    IF table = <<>> THEN <<Entry(<<"/">>, "GET" :> "default")>> ELSE table

loadRoutes(entries) == WithDefault(scanDirectoryForRoutes(entries))

\* the entries whose file processFile imports: the files of the directories
\* that processDirectory is called for
Imported(entries) ==
    {i \in 1..Len(entries) :
        \E k \in 1..Len(DirKeys(entries, <<>>)) :
            Includes(FilesOf(entries, DirKeys(entries, <<>>)[k]), entries[i])}

(***************************************************************************)
(* The state machine.  pc, req, pending, guard, call and resp are the       *)
(* locals of the call of fetch that runs, pc the await it has reached;     *)
(* waiting holds the calls of fetch that are suspended at an await while   *)
(* another one runs.                                                       *)
(***************************************************************************)
VARIABLES fs, routes, pc, req, pending, guard, call, resp, mr, dir, imported, waiting,
          hdr

vars == <<fs, routes, pc, req, pending, guard, call, resp, mr, dir, imported, waiting, hdr>>

Init ==
    /\ fs \in FsLayouts
    /\ routes \in RouteTables
    /\ pc = "idle"
    /\ req = NoRequest
    /\ pending = <<>>
    /\ guard = NoResponse
    /\ call = NoCall
    /\ resp = NoResponse
    /\ mr = NoMatchCall
    /\ dir = <<>>
    /\ imported = {}
    /\ waiting = <<>>
    /\ hdr = NoHeaders

\* fetch acts on the outcome of its route stage
Route(stage) ==
    /\ call' = stage.call
    /\ resp' = stage.resp
    /\ pc' = IF stage.call = NoCall THEN "done" ELSE "handler"

\* fetch once the synchronous part g of the guard has run
FetchGuarded(r, pathname, g) ==
    IF g.status = 0
    THEN /\ pending' = g.filePath
         /\ pc' = "stat"
         /\ UNCHANGED <<guard, call, resp>>
    ELSE /\ guard' = Response(g.status, "static")
         /\ pending' = <<>>
         /\ IF g.status # 404
            THEN /\ resp' = addCors(Response(g.status, "static"))
                 /\ pc' = "done"
                 /\ call' = NoCall
            ELSE Route(RouteStage(routes, r, pathname))

\* variant of FetchPath: the routes are looked up without the guard
FetchPathRoutesFirst(r, pathname) ==
    IF r.method = "OPTIONS"
    THEN /\ resp' = addCors(corsResponse)
         /\ pc' = "done"
         /\ UNCHANGED <<pending, guard, call>>
    ELSE /\ Route(RouteStage(routes, r, pathname))
         /\ UNCHANGED <<pending, guard>>

\* fetch(req), given url.pathname
FetchPath(r, pathname) ==
    IF r.method = "OPTIONS"
    THEN /\ resp' = addCors(corsResponse)
         /\ pc' = "done"
         /\ UNCHANGED <<pending, guard, call>>
    ELSE IF StartsWith(pathname, <<"/", "a", "s", "s", "e", "t", "s", "/">>)
    THEN FetchGuarded(r, pathname, GuardChecks(fs, pathname))
    ELSE /\ Route(RouteStage(routes, r, pathname))
         /\ UNCHANGED <<pending, guard>>

\* fetch(req) up to the first await that suspends on the file system or on
\* the application
Fetch(r) ==
    /\ pc = "idle"
    /\ req' = r
    /\ UNCHANGED <<fs, routes, mr, dir, imported, waiting, hdr>>
    /\ FetchPath(r, UrlPathname(r.target))

\* fetch once the guard has answered s after its stat
AfterStat(s) ==
    /\ guard' = s
    /\ IF s.status # 404
       THEN /\ resp' = addCors(s)
            /\ pc' = "done"
            /\ call' = NoCall
       ELSE Route(RouteStage(routes, req, UrlPathname(req.target)))

\* variant of StaticStat: the guard enters the file it served in the table
StaticStatCachesRoute ==
    /\ pc = "stat"
    /\ pending' = <<>>
    /\ routes' = Append(routes, Entry(UrlPathname(req.target), "GET" :> "plain"))
    /\ UNCHANGED <<fs, req, mr, dir, imported, waiting, hdr>>
    /\ AfterStat(GuardStream(fs, pending))

\* variant of StaticStat: the guard answers 404 while another call of fetch
\* is suspended
StaticStatBusy ==
    /\ pc = "stat"
    /\ pending' = <<>>
    /\ UNCHANGED <<fs, routes, req, mr, dir, imported, waiting, hdr>>
    /\ AfterStat(IF waiting # <<>> THEN Response(404, "static")
                 ELSE GuardStream(fs, pending))

\* the guard resumes after file.stat()
StaticStat ==
    /\ pc = "stat"
    /\ pending' = <<>>
    /\ UNCHANGED <<fs, routes, req, mr, dir, imported, waiting, hdr>>
    /\ AfterStat(GuardStream(fs, pending))

\* variant of HandlerReturn: after the handler that resolveRoute gave has
\* returned, fetch goes on to its matchRoute branch
HandlerReturnFallsThrough ==
    /\ pc = "handler"
    /\ IF call.via = "resolved" /\ "GET" \in DOMAIN matchRoute(routes, UrlPathname(req.target)).handlers
       THEN /\ call' = [call EXCEPT !.via = "head", !.key = "GET"]
            /\ pc' = "handler"
            /\ resp' = resp
       ELSE /\ resp' = Finish(call, HandlerResponse(call.handler, call.request))
            /\ pc' = "done"
            /\ call' = call
    /\ UNCHANGED <<fs, routes, req, pending, guard, mr, dir, imported, waiting, hdr>>

\* the handler that was called returns (or throws)
HandlerReturn ==
    /\ pc = "handler"
    /\ resp' = Finish(call, HandlerResponse(call.handler, call.request))
    /\ pc' = "done"
    /\ UNCHANGED <<fs, routes, req, pending, guard, call, mr, dir, imported, waiting, hdr>>

\* the response is sent and the request is forgotten
Deliver ==
    /\ pc = "done"
    /\ pc' = "idle"
    /\ req' = NoRequest
    /\ guard' = NoResponse
    /\ call' = NoCall
    /\ resp' = NoResponse
    /\ UNCHANGED <<fs, routes, pending, mr, dir, imported, waiting, hdr>>

\* matchRoute is exported: a call of it with any pathname
CallMatchRoute(pathname) ==
    /\ pc = "idle"
    /\ pc' = "matched"
    /\ mr' = [called |-> TRUE, pathname |-> pathname,
              result |-> matchRoute(routes, pathname)]
    /\ UNCHANGED <<fs, routes, req, pending, guard, call, resp, dir, imported, waiting, hdr>>

\* the caller of matchRoute drops the match it was given
DropMatch ==
    /\ pc = "matched"
    /\ pc' = "idle"
    /\ mr' = NoMatchCall
    /\ UNCHANGED <<fs, routes, req, pending, guard, call, resp, dir, imported, waiting, hdr>>

\* the server hands a request it received to fetch
Serve ==
    /\ pc = "idle"
    /\ \E r \in Requests : Fetch(r)

\* a module that imports matchRoute calls it
ImportedMatchRoute ==
    /\ pc = "idle"
    /\ \E p \in RouteTargets : CallMatchRoute(p)

Next ==
    \/ Serve
    \/ StaticStat
    \/ HandlerReturn
    \/ Deliver
    \/ ImportedMatchRoute
    \/ DropMatch

Spec == Init /\ [][Next]_vars

(***************************************************************************)
(* Concurrent requests.  fetch is async: at an await the call is suspended *)
(* with its locals and the server runs another call of fetch, or resumes a *)
(* suspended one, in any order.                                            *)
(***************************************************************************)
\* the locals of a call of fetch
Suspended(at, r, filePath, g, c, response) ==
    [pc |-> at, req |-> r, pending |-> filePath, guard |-> g, call |-> c,
     resp |-> response]

\* the sequence without its element i
RemoveAt(seq, i) == [k \in 1..(Len(seq) - 1) |-> IF k < i THEN seq[k] ELSE seq[k + 1]]

\* the call of fetch that runs is suspended at its await, or has returned
\* its response, which the server sends while it runs other calls
Await ==
    /\ pc \in {"stat", "handler", "done"}
    /\ Len(waiting) < MaxWaiting
    /\ waiting' = Append(waiting, Suspended(pc, req, pending, guard, call, resp))
    /\ pc' = "idle"
    /\ req' = NoRequest
    /\ pending' = <<>>
    /\ guard' = NoResponse
    /\ call' = NoCall
    /\ resp' = NoResponse
    /\ UNCHANGED <<fs, routes, mr, dir, imported, hdr>>

\* variant of ResumeAt: call is one variable that all calls of fetch share,
\* and holds what the call that was suspended last wrote
ResumeSharedCall(i) ==
    /\ pc' = waiting[i].pc
    /\ req' = waiting[i].req
    /\ pending' = waiting[i].pending
    /\ guard' = waiting[i].guard
    /\ call' = waiting[Len(waiting)].call
    /\ resp' = waiting[i].resp
    /\ waiting' = RemoveAt(waiting, i)
    /\ UNCHANGED <<fs, routes, mr, dir, imported, hdr>>

\* the suspended call i runs on with its own locals
ResumeAt(i) ==
    /\ pc' = waiting[i].pc
    /\ req' = waiting[i].req
    /\ pending' = waiting[i].pending
    /\ guard' = waiting[i].guard
    /\ call' = waiting[i].call
    /\ resp' = waiting[i].resp
    /\ waiting' = RemoveAt(waiting, i)
    /\ UNCHANGED <<fs, routes, mr, dir, imported, hdr>>

\* the event loop resumes one of the suspended calls
Resume ==
    /\ pc = "idle"
    /\ \E i \in 1..Len(waiting) : ResumeAt(i)

\* the requests that are served concurrently: a file and a missing file
\* under /assets, two paths of one parameterized route, a HEAD that falls
\* back to GET, a method that the route lacks, and a preflight
ConcRequests ==
    {Request("GET", JoinSlash(<<<<"a", "s", "s", "e", "t", "s">>, <<"f">>>>)),
     Request("GET", JoinSlash(<<<<"a", "s", "s", "e", "t", "s">>, <<"s">>>>)),
     Request("GET", JoinSlash(<<<<"i">>, <<"4">>>>)),
     Request("GET", JoinSlash(<<<<"i">>, <<"n">>>>)),
     Request("HEAD", JoinSlash(<<<<"i">>, <<"4">>>>)),
     Request("POST", JoinSlash(<<<<"i">>, <<"4">>>>)),
     Request("OPTIONS", JoinSlash(<<<<"i">>>>))}

\* the server hands a request to fetch while other calls are suspended
ConcServe ==
    /\ pc = "idle"
    /\ \E r \in ConcRequests : Fetch(r)

ConcNext ==
    \/ ConcServe
    \/ StaticStat
    \/ HandlerReturn
    \/ Deliver
    \/ Await
    \/ Resume

ConcSpec == Init /\ [][ConcNext]_vars

(***************************************************************************)
(* The file system changes under the guard.  Between the lstatSync loop    *)
(* and the completion of await file.stat() another process replaces a path *)
(* that the guard has checked by a symbolic link; one replacement is       *)
(* enumerated per run.                                                     *)
(***************************************************************************)
ReplaceByLink ==
    /\ pc = "stat"
    /\ fs \in FsLayouts
    /\ \E k \in (Len(AssetsRoot) + 1)..Len(pending) : \E t \in {Outside, Secret} :
        fs' = [p \in DOMAIN fs |->
                  IF p = SubSeq(pending, 1, k) THEN Link(t) ELSE fs[p]]
    /\ UNCHANGED <<routes, pc, req, pending, guard, call, resp, mr, dir, imported,
                   waiting, hdr>>

RaceSpec ==
    Init /\ [][ConcServe \/ StaticStat \/ HandlerReturn \/ Deliver \/ ReplaceByLink]_vars

(***************************************************************************)
(* Calls of corsHeaders.  hdr holds the header of the call; which of the   *)
(* two declarations of the file a build binds the name to is open.         *)
(***************************************************************************)
CorsInit ==
    /\ fs = BaseFs
    /\ routes = <<>>
    /\ pc = "cors"
    /\ req \in {[configured |-> c, requestOrigin |-> o] :
                   c \in {[kind |-> "absent", val |-> <<>>, list |-> <<>>],
                           [kind |-> "undefined", val |-> <<>>, list |-> <<>>]}
                          \cup {[kind |-> "string", val |-> v, list |-> <<>>] :
                                    v \in {<<>>, <<"*">>, <<"a">>, <<"b">>}}
                          \cup {[kind |-> "array", val |-> <<>>, list |-> v] :
                                    v \in {<<>>} \cup SeqsUpTo({<<"a">>, <<"b">>, <<"c">>},
                                                               MaxOrigins)},
                   o \in {[has |-> FALSE, val |-> <<>>]}
                          \cup {[has |-> TRUE, val |-> v] :
                                    v \in {<<>>, <<"a">>, <<"b">>, <<"c">>, <<"d">>}}}
    /\ pending = <<>>
    /\ guard = NoResponse
    /\ call = NoCall
    /\ resp = NoResponse
    /\ mr = NoMatchCall
    /\ dir = <<>>
    /\ imported = {}
    /\ waiting = <<>>
    /\ hdr = NoHeaders

\* corsHeaders(options, requestOrigin) is called
CallCorsHeaders ==
    /\ pc = "cors"
    /\ pc' = "headers"
    /\ \E declared \in {1, 2} :
        hdr' = [called |-> TRUE, declared |-> declared,
                allowOrigin |-> IF declared = 1
                                THEN corsHeadersJoin(OptsOrigin(req.configured))
                                ELSE corsHeaders(OptsOrigin(req.configured),
                                                 req.requestOrigin)]
    /\ UNCHANGED <<fs, routes, req, pending, guard, call, resp, mr, dir, imported,
                   waiting>>

CorsSpec == CorsInit /\ [][CallCorsHeaders]_vars

(***************************************************************************)
(* The start of the server: loadRoutes builds the table from the routes    *)
(* directory.  The enumerated directories hold up to MaxRouteFiles files   *)
(* in the root, in i/$d and in a directory whose name holds a backslash.   *)
(***************************************************************************)
RouteDirNames ==
    {<<>>, <<<<"i">>, <<"$", "d">>>>, <<<<"a", "\\", "b">>>>}

IndexTs == <<"i", "n", "d", "e", "x", ".", "t", "s">>

PostJs == <<"p", "o", "s", "t", ".", "j", "s">>

RouteFileNames ==
    {IndexTs, PostJs,
     <<"G", "E", "T", ".", "t", "s", "x">>,
     <<"p", "o", "s", "t", ".", "t", "e", "s", "t", ".", "t", "s">>,
     <<"_", "g", "e", "t", ".", "t", "s">>,
     <<"g", "e", "t", ".", "m", "d">>,
     <<"h", "e", "l", "p", "e", "r", ".", "j", "s", "x">>}

\* the files a directory is put together from; the last one is a directory
\* that carries the name of a route file
RouteFiles ==
    {DirEntry(d, n, "file", "plain") : d \in RouteDirNames, n \in RouteFileNames}
    \cup {DirEntry(d, n, "file", m) : d \in RouteDirNames, n \in {IndexTs, PostJs},
                                      m \in {"throws", "object", "component"}}
    \cup {DirEntry(<<>>, <<"g", "e", "t", ".", "t", "s">>, "dir", "none")}

\* the entry of the directory that the first k names of a path lead to
DirectoryEntry(path, k) == DirEntry(SubSeq(path, 1, k - 1), path[k], "dir", "none")

RECURSIVE WithDirectories(_, _)
\* the listing of the files: every file after the directories it lies in
WithDirectories(files, listing) ==
    IF files = <<>> THEN listing
    ELSE WithDirectories(Tail(files),
            listing
            \o SelectSeq([k \in 1..Len(Head(files).parentPath) |->
                             DirectoryEntry(Head(files).parentPath, k)],
                         LAMBDA e : ~Includes(listing, e))
            \o <<Head(files)>>)

RouteDirs ==
    {<<>>} \cup {WithDirectories(files, <<>>) : files \in SeqsUpTo(RouteFiles, MaxRouteFiles)}

BuildInit ==
    /\ fs = BaseFs
    /\ routes = <<>>
    /\ pc = "boot"
    /\ req = NoRequest
    /\ pending = <<>>
    /\ guard = NoResponse
    /\ call = NoCall
    /\ resp = NoResponse
    /\ mr = NoMatchCall
    /\ dir \in RouteDirs
    /\ imported = {}
    /\ waiting = <<>>
    /\ hdr = NoHeaders

\* startServer awaits loadRoutes('routes')
StartServer ==
    /\ pc = "boot"
    /\ routes' = loadRoutes(dir)
    /\ imported' = Imported(dir)
    /\ pc' = "loaded"
    /\ UNCHANGED <<fs, req, pending, guard, call, resp, mr, dir, waiting, hdr>>

BuildSpec == BuildInit /\ [][StartServer]_vars

(***************************************************************************)
(* Properties of the static guard.  guard holds the answer of the guard to *)
(* the request in flight (status 0 while it has not answered).             *)
(***************************************************************************)
\* the segments of the request path that the guard decodes
GuardSegments(r) == RawSegments(UrlPathname(r.target))

\* the segment decodes to ".", ".." or to a string that holds "/" or "\"
Traversal(d) ==
    /\ d.ok
    /\ \/ d.val \in {<<".">>, <<".", ".">>}
       \/ \E i \in 1..Len(d.val) : d.val[i] \in {"/", "\\"}

TraversalAt(segs, i) == Traversal(decodeURIComponent(segs[i]))

MalformedAt(segs, i) == ~decodeURIComponent(segs[i]).ok

\* every segment of the path decodes and is kept by the guard
AllKept(segs) ==
    \A i \in 1..Len(segs) : ~MalformedAt(segs, i) /\ ~TraversalAt(segs, i)

DecodedAt(segs, i) == decodeURIComponent(segs[i]).val

\* the path the guard reaches after the first k segments
Reached(segs, k) == AssetsRoot \o [i \in 1..k |-> DecodedAt(segs, i)]

NoLinkBelowRoot(f, filePath) ==
    \A k \in (Len(AssetsRoot) + 1)..Len(filePath) :
        Node(f, SubSeq(filePath, 1, k)).kind # "link"

OpensFileUnderRoot(f, w) ==
    /\ w.ok
    /\ Node(f, w.path).kind = "file"
    /\ StrictlyUnder(w.path, AssetsRoot)

\* C1: whenever the guard answers 200, the file it streams is a regular
\* file whose real path is a strict descendant of the assets root, and no
\* component of the path between the root and the file is a symbolic link.
C1_GuardContainment ==
    guard.status = 200 =>
        /\ OpensFileUnderRoot(fs, RealPath(fs, guard.file))
        /\ StrictlyUnder(guard.file, AssetsRoot)
        /\ NoLinkBelowRoot(fs, guard.file)

\* a 200 for a file in a directory below the root
C1_Witness ==
    /\ guard.status = 200
    /\ Len(guard.file) = Len(AssetsRoot) + 2

\* C2 (as stated): a request path under the prefix with a segment that
\* decodes to ".", ".." or to a string holding "/" or "\" is answered 404,
\* whatever its other segments are.
C2_AsStated ==
    (guard.status # 0 /\ \E i \in 1..Len(GuardSegments(req)) :
                            TraversalAt(GuardSegments(req), i))
        => guard.status = 404

TraversalFirst(segs) ==
    \E i \in 1..Len(segs) :
        /\ TraversalAt(segs, i)
        /\ \A j \in 1..(i - 1) : ~MalformedAt(segs, j)

\* C2 (amended): a request path under the prefix with a segment that
\* decodes to ".", ".." or to a string holding "/" or "\", every segment
\* before which percent-decodes, is answered 404 whatever the file system
\* holds.
C2_TraversalRejected ==
    (guard.status # 0 /\ TraversalFirst(GuardSegments(req))) => guard.status = 404

\* a separator is decoded in the second segment, after a segment that names
\* an existing directory
C2_Witness ==
    /\ guard.status = 404
    /\ Len(GuardSegments(req)) = 2
    /\ TraversalAt(GuardSegments(req), 2)
    /\ ~MalformedAt(GuardSegments(req), 1)
    /\ ~TraversalAt(GuardSegments(req), 1)
    /\ Node(fs, Reached(GuardSegments(req), 1)).kind = "dir"

LinkOrMissing(f, segs) ==
    \E k \in 1..Len(segs) : Node(f, Reached(segs, k)).kind \in {"link", "none"}

\* C3: when every segment is kept and a path reached while resolving them
\* one by one from the root is a symbolic link or does not exist, the guard
\* answers 404 and streams no file.
C3_SymlinkRejected ==
    (/\ guard.status # 0
     /\ AllKept(GuardSegments(req))
     /\ LinkOrMissing(fs, GuardSegments(req)))
        => (guard.status = 404 /\ guard.file = <<>>)

\* the request names a link whose target is a regular file
C3_Witness ==
    /\ guard.status = 404
    /\ guard.file = <<>>
    /\ Len(GuardSegments(req)) = 1
    /\ AllKept(GuardSegments(req))
    /\ Node(fs, Reached(GuardSegments(req), 1)).kind = "link"
    /\ Stat(fs, Reached(GuardSegments(req), 1)) = "file"

\* C4 (as stated): a request path under the prefix with a segment that
\* fails percent-decoding is answered 400, whatever its other segments are.
C4_AsStated ==
    (guard.status # 0 /\ \E i \in 1..Len(GuardSegments(req)) :
                            MalformedAt(GuardSegments(req), i))
        => guard.status = 400

MalformedFirst(segs) ==
    \E i \in 1..Len(segs) :
        /\ MalformedAt(segs, i)
        /\ \A j \in 1..(i - 1) : ~TraversalAt(segs, j)

\* C4 (amended): a request path under the prefix with a segment that fails
\* percent-decoding, no segment before which decodes to ".", ".." or to a
\* string holding "/" or "\", is answered 400.
C4_MalformedRejected ==
    (guard.status # 0 /\ MalformedFirst(GuardSegments(req))) => guard.status = 400

\* the second segment is malformed, after a segment that is kept
C4_Witness ==
    /\ guard.status = 400
    /\ resp.status = 400
    /\ Len(GuardSegments(req)) = 2
    /\ MalformedAt(GuardSegments(req), 2)
    /\ ~MalformedAt(GuardSegments(req), 1)
    /\ ~TraversalAt(GuardSegments(req), 1)

(***************************************************************************)
(* Properties of the matcher.  mr holds a call of matchRoute: the pathname *)
(* it was given and the match it returned.                                 *)
(***************************************************************************)
\* the entry of the table whose key is the path
ExactEntry(table, key) == table[CHOOSE i \in Lookup(table, key) : TRUE]

IsExactMatch(m, table, key) ==
    /\ m.found
    /\ m.routePath = key
    /\ m.handlers = ExactEntry(table, key).handlers
    /\ m.params = NoParams

\* C5: when the normalized request path is a key of the table, matchRoute
\* returns the entry of that key with empty params, whichever parameterized
\* routes match the path and wherever they stand in the table.
C5_ExactBeatsParameterized ==
    (mr.called /\ Lookup(routes, normalizePathname(mr.pathname)) # {})
        => IsExactMatch(mr.result, routes, normalizePathname(mr.pathname))

ParamRouteBefore(table, key) ==
    \E i \in Lookup(table, key) : \E j \in 1..(i - 1) :
        /\ Includes(table[j].routePath, ":")
        /\ matchPath(table[j].routePath, key).ok

\* the path is a key and a parameterized route that stands before it in
\* the table matches the path too
C5_Witness ==
    /\ mr.called
    /\ ParamRouteBefore(routes, normalizePathname(mr.pathname))
    /\ IsExactMatch(mr.result, routes, normalizePathname(mr.pathname))

\* the non-empty pieces between the slashes of a path
Pieces(path) == SelectSeq(Split(path), LAMBDA x : x # <<>>)

IsParam(seg) == Len(seg) > 0 /\ seg[1] = ":"

ParamName(seg) == SubSeq(seg, 2, Len(seg))

\* position i of the route agrees with the path: a literal equals the
\* segment, a parameter is bound to the decoded segment
AgreesAt(rs, ps, params, i) ==
    IF IsParam(rs[i])
    THEN /\ decodeURIComponent(ps[i]).ok
         /\ ParamName(rs[i]) \in DOMAIN params
         /\ params[ParamName(rs[i])] = decodeURIComponent(ps[i]).val
    ELSE rs[i] = ps[i]

Agrees(rs, ps, params) ==
    /\ Len(rs) = Len(ps)
    /\ \A i \in 1..Len(rs) : AgreesAt(rs, ps, params, i)

\* C6 (as stated): a parameterized route matches a path only if both have
\* the same number of segments, every literal segment of the route equals
\* the segment of the path at its position, and every :name is bound to the
\* decoded segment of the path at its position.
C6_AsStated ==
    (mr.called /\ mr.result.found /\ Includes(mr.result.routePath, ":"))
        => Agrees(Pieces(mr.result.routePath), Pieces(mr.pathname), mr.result.params)

\* no later segment of the route carries the same parameter name
LastOfName(rs, i) == \A j \in (i + 1)..Len(rs) : rs[j] # rs[i]

AgreesLast(rs, ps, params) ==
    /\ Len(rs) = Len(ps)
    /\ DOMAIN params = {ParamName(rs[i]) : i \in {k \in 1..Len(rs) : IsParam(rs[k])}}
    /\ \A i \in 1..Len(rs) :
        IF IsParam(rs[i])
        THEN /\ decodeURIComponent(ps[i]).ok
             /\ LastOfName(rs, i) =>
                    params[ParamName(rs[i])] = decodeURIComponent(ps[i]).val
        ELSE rs[i] = ps[i]

\* C6 (amended): a parameterized route matches a path that is not itself a
\* key of the table only if both have the same number of non-empty
\* segments, every literal segment of the route equals the segment of the
\* path at its position, every segment under a :name percent-decodes, and
\* every name is bound to the decoded segment at the position of its last
\* occurrence in the route; a path that is itself the key of a
\* parameterized route matches it with no name bound.
C6_ParameterMatching ==
    (mr.called /\ mr.result.found /\ Includes(mr.result.routePath, ":"))
        => IF Lookup(routes, normalizePathname(mr.pathname)) # {}
           THEN /\ mr.result.routePath = normalizePathname(mr.pathname)
                /\ mr.result.params = NoParams
           ELSE AgreesLast(Pieces(mr.result.routePath), Pieces(mr.pathname),
                           mr.result.params)

EncodedParamAt(rs, ps, i) ==
    /\ IsParam(rs[i])
    /\ decodeURIComponent(ps[i]).val # ps[i]

\* a parameter is bound to a segment that was sent percent-encoded
C6_Witness ==
    /\ mr.called
    /\ mr.result.found
    /\ Includes(mr.result.routePath, ":")
    /\ \E i \in 1..Len(Pieces(mr.result.routePath)) :
        /\ EncodedParamAt(Pieces(mr.result.routePath), Pieces(mr.pathname), i)
        /\ mr.result.params[ParamName(Pieces(mr.result.routePath)[i])] = <<"4">>

(***************************************************************************)
(* Properties of the pipeline.  resp holds the response of fetch to the    *)
(* request in flight once pc is "done".                                    *)
(***************************************************************************)
\* the request was answered by the route stage of fetch
RoutedAnswer ==
    /\ pc = "done"
    /\ req.method # "OPTIONS"
    /\ resp.origin # "static"

\* the entry that matches the path of the request
MatchedEntry(table, r) == matchRoute(table, UrlPathname(r.target))

\* the entry has no handler for the method, and the method is not a HEAD
\* that the GET handler of the entry serves
MethodUnsupported(m, method) ==
    /\ m.found
    /\ method \notin DOMAIN m.handlers
    /\ ~(method = "HEAD" /\ "GET" \in DOMAIN m.handlers)

\* C7 (as stated): a request that is no preflight and is not answered by
\* the static guard gets 404 exactly when no route matches its path, and
\* 405 exactly when a route matches its path and the entry has no handler
\* for its method (a HEAD served by the GET handler apart).
C7_AsStated ==
    RoutedAnswer =>
        /\ resp.status = 404 <=> ~MatchedEntry(routes, req).found
        /\ resp.status = 405 <=>
               MethodUnsupported(MatchedEntry(routes, req), toUpperCase(req.method))

Position(m) == CHOOSE k \in 1..Len(Alphabetical) : Alphabetical[k] = m

InAlphabeticalOrder(methods) ==
    \A i \in 1..Len(methods) : \A j \in (i + 1)..Len(methods) :
        Position(methods[i]) < Position(methods[j])

\* C8 (as stated): the methods of the Allow header of a 405 stand in
\* alphabetical order, the implied HEAD included: an entry with GET and
\* POST that receives DELETE answers Allow: GET, HEAD, POST.
C8_AsStated ==
    (pc = "done" /\ resp.status = 405) =>
        /\ InAlphabeticalOrder(resp.allow)
        /\ DOMAIN MatchedEntry(routes, req).handlers = {"GET", "POST"}
               => resp.allow = <<"GET", "HEAD", "POST">>

ImpliedHead(keys) == IF "GET" \in keys /\ "HEAD" \notin keys THEN {"HEAD"} ELSE {}

Listed(methods) == {methods[i] : i \in 1..Len(methods)}

\* C9 (as stated): the methods of the Allow header of a 405 are the method
\* keys of the matched entry, and HEAD when the entry has GET and no HEAD;
\* none is listed twice and the method of the request is not listed.
C9_AsStated ==
    (pc = "done" /\ resp.status = 405) =>
        /\ Listed(resp.allow) =
               DOMAIN MatchedEntry(routes, req).handlers
               \cup ImpliedHead(DOMAIN MatchedEntry(routes, req).handlers)
        /\ Cardinality(Listed(resp.allow)) = Len(resp.allow)
        /\ toUpperCase(req.method) \notin Listed(resp.allow)

\* the response of fetch to a request that its route stage answers
AnswerOf(stage) ==
    IF stage.call = NoCall THEN stage.resp
    ELSE Finish(stage.call, HandlerResponse(stage.call.handler, stage.call.request))

\* the response a GET of the same path gets
GetAnswer(table, r) ==
    AnswerOf(RouteStage(table, Request("GET", r.target), UrlPathname(r.target)))

\* a GET of the path is served by an entry that has no HEAD handler
GetOnlyEntry(table, r) ==
    /\ resolveRoute(table, Request("GET", r.target)).found
    /\ "HEAD" \notin DOMAIN
           matchRoute(table, resolveRoute(table, Request("GET", r.target)).routePath).handlers

SameStatusAndHeaders(a, b) ==
    /\ a.status = b.status
    /\ a.allow = b.allow
    /\ a.cors = b.cors

\* C10 (as stated): a HEAD of a path whose entry has a GET handler and no
\* HEAD handler gets the status and the headers a GET of the path gets,
\* and no body; it gets neither 404 nor 405.
C10_AsStated ==
    (RoutedAnswer /\ req.method = "HEAD" /\ GetOnlyEntry(routes, req)) =>
        /\ SameStatusAndHeaders(resp, GetAnswer(routes, req))
        /\ ~resp.hasBody
        /\ resp.status \notin {404, 405}

(***************************************************************************)
(* Further properties of the matcher.                                      *)
(***************************************************************************)
\* position i of a route suits the path: a literal equals the segment, a
\* parameter faces a segment that percent-decodes
SuitsAt(rs, ps, i) ==
    IF IsParam(rs[i]) THEN ~MalformedAt(ps, i) ELSE rs[i] = ps[i]

Suits(rs, ps) ==
    /\ Len(rs) = Len(ps)
    /\ \A i \in 1..Len(rs) : SuitsAt(rs, ps, i)

\* the parameterized entries of the table that suit the path
Suitable(table, path) ==
    {i \in 1..Len(table) :
        /\ Includes(table[i].routePath, ":")
        /\ Suits(Pieces(table[i].routePath), Pieces(path))}

\* entry i would match the path but for a malformed segment under a :name
MalformedOnly(rs, ps) ==
    /\ Len(rs) = Len(ps)
    /\ \A i \in 1..Len(rs) : IsParam(rs[i]) \/ rs[i] = ps[i]
    /\ \E i \in 1..Len(rs) : IsParam(rs[i]) /\ MalformedAt(ps, i)

FirstSuitable(m, table, path) ==
    IF Suitable(table, path) = {} THEN m = NoMatch
    ELSE /\ m.found
         /\ \E i \in Suitable(table, path) :
              /\ \A j \in Suitable(table, path) : i <= j
              /\ m.routePath = table[i].routePath
              /\ m.handlers = table[i].handlers

\* C11: when no key of the table is the path, matchRoute returns the first
\* parameterized route all of whose literals equal the segments of the path
\* and all of whose parameters face segments that percent-decode; a route
\* whose parameter faces a malformed segment is passed over, and when no
\* route is left the result is no match.
C11_MalformedSkipsRoute ==
    (mr.called /\ Lookup(routes, normalizePathname(mr.pathname)) = {})
        => FirstSuitable(mr.result, routes, mr.pathname)

SkippedBefore(table, path, m) ==
    \E i \in 1..Len(table) : \E j \in (i + 1)..Len(table) :
        /\ Includes(table[i].routePath, ":")
        /\ MalformedOnly(Pieces(table[i].routePath), Pieces(path))
        /\ m.routePath = table[j].routePath

\* a route is passed over for a malformed segment and a later one matches
C11_Witness ==
    /\ mr.called
    /\ mr.result.found
    /\ SkippedBefore(routes, mr.pathname, mr.result)

\* a route is passed over for a malformed segment and none is left
C11_WitnessNoMatch ==
    /\ mr.called
    /\ mr.result = NoMatch
    /\ \E i \in 1..Len(routes) :
        /\ Includes(routes[i].routePath, ":")
        /\ MalformedOnly(Pieces(routes[i].routePath), Pieces(mr.pathname))

\* the segment is an encoding of ".."
IsEncodedDotDot(seg) ==
    /\ seg # <<".", ".">>
    /\ decodeURIComponent(seg).ok
    /\ decodeURIComponent(seg).val = <<".", ".">>

HasEncodedDotDot(segs) == \E i \in 1..Len(segs) : IsEncodedDotDot(segs[i])

\* every last occurrence of a name that faces an encoding of ".." is bound
\* to ".."
DotDotBound(rs, ps, params) ==
    \A i \in 1..Len(rs) :
        (IsParam(rs[i]) /\ LastOfName(rs, i) /\ IsEncodedDotDot(ps[i]))
            => (/\ ParamName(rs[i]) \in DOMAIN params
                /\ params[ParamName(rs[i])] = <<".", ".">>)

\* matchRoute refuses no parameter value: a path that suits a parameterized
\* route matches, and an encoding of ".." under a name is bound as ".."
MatcherKeepsDotDot ==
    (mr.called /\ Lookup(routes, normalizePathname(mr.pathname)) = {}
        /\ Suitable(routes, mr.pathname) # {})
        => (/\ mr.result.found
            /\ DotDotBound(Pieces(mr.result.routePath), Pieces(mr.pathname),
                           mr.result.params))

DecodedNames(segs) == [i \in 1..Len(segs) |-> decodeURIComponent(segs[i]).val]

\* the file that the request names once the URL has resolved its dot
\* segments
NamedFile(r) == AssetsRoot \o DecodedNames(GuardSegments(r))

C12_WitnessGuard ==
    /\ guard.status = 200
    /\ HasEncodedDotDot(Pieces(req.target))

RECURSIVE StripAll(_)
\* the path with every trailing slash removed, the root apart
StripAll(path) ==
    IF Len(path) > 1 /\ path[Len(path)] = "/" THEN StripAll(SubSeq(path, 1, Len(path) - 1))
    ELSE path

TrailingSlashes(path) == Len(path) - Len(StripAll(path))

\* the match is the match of the path q
SameMatchAs(m, table, q) ==
    /\ m = matchRoute(table, q)
    /\ Lookup(table, q) # {} => IsExactMatch(m, table, q)

\* C13 (as stated): for a path other than "/", matchRoute gives for the
\* path with trailing slashes the result it gives for the path with them
\* removed.
C13_AsStated ==
    (mr.called /\ mr.pathname # <<"/">> /\ TrailingSlashes(mr.pathname) > 0)
        => SameMatchAs(mr.result, routes, StripAll(mr.pathname))

\* C13 (amended): for a path that ends in exactly one slash and is not "/",
\* matchRoute gives the result it gives for the path without that slash,
\* for exact and for parameterized routes; "/" is looked up as it is.
C13_TrailingSlash ==
    /\ (mr.called /\ Len(mr.pathname) > 1 /\ TrailingSlashes(mr.pathname) = 1)
           => SameMatchAs(mr.result, routes, StripAll(mr.pathname))
    /\ (mr.called /\ mr.pathname = <<"/">> /\ Lookup(routes, <<"/">>) # {})
           => IsExactMatch(mr.result, routes, <<"/">>)

\* a path with one trailing slash has matched an exact route
C13_Witness ==
    /\ mr.called
    /\ Len(mr.pathname) > 1
    /\ TrailingSlashes(mr.pathname) = 1
    /\ Lookup(routes, StripAll(mr.pathname)) # {}
    /\ IsExactMatch(mr.result, routes, StripAll(mr.pathname))

\* a path with one trailing slash has matched a parameterized route
C13_WitnessParam ==
    /\ mr.called
    /\ TrailingSlashes(mr.pathname) = 1
    /\ mr.result.found
    /\ Includes(mr.result.routePath, ":")

(***************************************************************************)
(* Properties of the route builder, over the start of the server           *)
(* (BuildSpec).  Once pc is "loaded", dir is the routes directory that was *)
(* scanned, imported the entries whose file was imported and routes the    *)
(* table that loadRoutes returned.                                         *)
(***************************************************************************)
HasSuffix(name, suffix) ==
    /\ Len(name) >= Len(suffix)
    /\ SubSeq(name, Len(name) - Len(suffix) + 1, Len(name)) = suffix

\* the name does not start with "_" and ends with .js, .ts, .jsx or .tsx
RouteFileName(name) ==
    /\ ~(Len(name) > 0 /\ name[1] = "_")
    /\ \E suffix \in {<<".", "j", "s">>, <<".", "t", "s">>,
                      <<".", "j", "s", "x">>, <<".", "t", "s", "x">>} :
           HasSuffix(name, suffix)

\* the listing without the files whose name is not the name of a route file
OnlyRouteFiles(entries) ==
    SelectSeq(entries, LAMBDA e : e.kind = "file" => RouteFileName(e.name))

\* the route paths of a table with their handlers, whatever their order
Content(table) == {table[i] : i \in 1..Len(table)}

\* C14: a file of the routes directory is imported exactly when its name
\* does not start with "_" and ends with .js, .ts, .jsx or .tsx, and the
\* table is the table of the directory without the other files.
C14_FileFilter ==
    pc = "loaded" =>
        /\ imported = {i \in 1..Len(dir) :
                          dir[i].kind = "file" /\ RouteFileName(dir[i].name)}
        /\ Content(routes) = Content(loadRoutes(OnlyRouteFiles(dir)))

\* a directory where one file was imported and gave a handler while a file
\* with a leading underscore and a source extension was not imported
C14_Witness ==
    /\ pc = "loaded"
    /\ imported # {}
    /\ \E i \in 1..Len(dir) :
        /\ dir[i].kind = "file"
        /\ dir[i].module = "plain"
        /\ dir[i].name[1] = "_"
        /\ i \notin imported
    /\ \E j \in 1..Len(routes) : \E m \in DOMAIN routes[j].handlers :
        routes[j].handlers[m] # "default"

\* the index of the last "." of a name, 0 when it has none
LastDot(name) ==
    IF \E i \in 1..Len(name) : name[i] = "."
    THEN CHOOSE i \in 1..Len(name) :
            name[i] = "." /\ \A j \in (i + 1)..Len(name) : name[j] # "."
    ELSE 0

\* the base name with the extension stripped
Stem(name) == IF LastDot(name) = 0 THEN name ELSE SubSeq(name, 1, LastDot(name) - 1)

\* the method that the stem names, compared without regard to case: GET for
\* index, the method for a method name, "" for anything else
StemMethod(stem) ==
    IF UpperChars(stem) = <<"I", "N", "D", "E", "X">> THEN "GET"
    ELSE IF \E k \in 1..Len(HTTP_METHODS) : Spelling(HTTP_METHODS[k]) = UpperChars(stem)
    THEN HTTP_METHODS[CHOOSE k \in 1..Len(HTTP_METHODS) :
                          Spelling(HTTP_METHODS[k]) = UpperChars(stem)]
    ELSE ""

\* the module of the entry is one that processFile accepts
Accepted(entry) == entry.module \in {"plain", "params", "component"}

\* the handler at key m of the route of a directory comes from the file i
GivenBy(entries, i, routeEntry, m) ==
    /\ i \in Imported(entries)
    /\ RoutePathOf(entries[i].parentPath) = routeEntry.routePath
    /\ Accepted(entries[i])
    /\ StemMethod(Stem(entries[i].name)) = m
    /\ routeEntry.handlers[m] = HandlerOf(entries[i].module)

\* every handler of the table that the scan built is given by a file whose
\* stem names its method
HandlersFromStems(entries, table) ==
    \A j \in 1..Len(table) : \A m \in DOMAIN table[j].handlers :
        \E i \in 1..Len(entries) : GivenBy(entries, i, table[j], m)

\* every imported file whose stem names a method and whose module is
\* accepted has its method in the route of its directory
StemsGiveHandlers(entries, table) ==
    \A i \in Imported(entries) :
        (Accepted(entries[i]) /\ StemMethod(Stem(entries[i].name)) # "")
            => \E j \in 1..Len(table) :
                /\ table[j].routePath = RoutePathOf(entries[i].parentPath)
                /\ StemMethod(Stem(entries[i].name)) \in DOMAIN table[j].handlers

\* C15 (as stated): the method of a route file is its base name with the
\* extension stripped, compared without regard to case: index gives GET, a
\* method name gives that method, and a file with any other base name
\* contributes no handler.
C15_AsStated ==
    (pc = "loaded" /\ routes = scanDirectoryForRoutes(dir))
        => (/\ HandlersFromStems(dir, routes)
            /\ StemsGiveHandlers(dir, routes))

\* a name of a directory as a segment of a route path
AsRouteSegment(name) ==
    IF Len(name) > 0 /\ name[1] = "$" THEN <<":">> \o SubSeq(name, 2, Len(name)) ELSE name

RECURSIVE SlashJoined(_)
SlashJoined(segs) ==
    IF segs = <<>> THEN <<>> ELSE <<"/">> \o AsRouteSegment(Head(segs)) \o SlashJoined(Tail(segs))

\* "/" and the names of the directory, joined by "/"
PathOfNames(names) == IF names = <<>> THEN <<"/">> ELSE SlashJoined(names)

\* the directories of the files that gave a handler
GivingDirectories(entries) ==
    {entries[i].parentPath : i \in {k \in Imported(entries) : processFile(entries[k]) # NoHandler}}

RoutePaths(table) == {table[j].routePath : j \in 1..Len(table)}

\* C16 (as stated): the route path of a file is "/" followed by the names
\* of its directory below the routes root joined by "/", a name that starts
\* with "$" becoming ":" and the rest of it; a file of the root has "/".
C16_AsStated ==
    (pc = "loaded" /\ routes = scanDirectoryForRoutes(dir))
        => RoutePaths(routes) = {PathOfNames(d) : d \in GivingDirectories(dir)}

RECURSIVE PiecesOfName(_, _, _)
\* the non-empty pieces of a name between its backslashes
PiecesOfName(name, cur, acc) ==
    IF name = <<>> THEN (IF cur = <<>> THEN acc ELSE Append(acc, cur))
    ELSE IF Head(name) = "\\"
    THEN PiecesOfName(Tail(name), <<>>, IF cur = <<>> THEN acc ELSE Append(acc, cur))
    ELSE PiecesOfName(Tail(name), Append(cur, Head(name)), acc)

RECURSIVE PiecesOfNames(_)
PiecesOfNames(names) ==
    IF names = <<>> THEN <<>>
    ELSE PiecesOfName(Head(names), <<>>, <<>>) \o PiecesOfNames(Tail(names))

\* C16 (amended): the route path of a file is "/" followed by the segments
\* of its directory below the routes root joined by "/", the segments
\* being the non-empty pieces of the relative path between "/" and "\"
\* characters; a segment that starts with "$" becomes ":" and the rest of
\* it; a file of the root has "/".
C16_RoutePath ==
    (pc = "loaded" /\ routes = scanDirectoryForRoutes(dir))
        => RoutePaths(routes) =
               {PathOfNames(PiecesOfNames(d)) : d \in GivingDirectories(dir)}

\* a file below a directory whose name starts with "$" has given a route
C16_Witness ==
    /\ pc = "loaded"
    /\ \E d \in GivingDirectories(dir) :
        /\ \E k \in 1..Len(d) : d[k][1] = "$"
        /\ PathOfNames(d) \in RoutePaths(routes)
        /\ Includes(PathOfNames(d), ":")

\* the import of the file throws, or its default export is neither a
\* function nor a React component
FailsToLoad(entry) == entry.kind = "file" /\ entry.module \in {"throws", "object"}

\* the listing without its entry i
Without(entries, i) == [k \in 1..(Len(entries) - 1) |-> IF k < i THEN entries[k] ELSE entries[k + 1]]

\* C17: when the import of a route file throws or its default export is
\* neither a function nor a React component, loadRoutes returns, and the
\* table has the handlers it has when the file is absent.
C17_FailureIsolation ==
    pc = "loaded" =>
        \A i \in imported :
            FailsToLoad(dir[i]) => Content(routes) = Content(loadRoutes(Without(dir, i)))

\* a file that fails to load is listed after a file of the same directory
\* that gave a handler
C17_Witness ==
    /\ pc = "loaded"
    /\ \E i \in imported : \E j \in imported :
        /\ j < i
        /\ FailsToLoad(dir[i])
        /\ dir[j].parentPath = dir[i].parentPath
        /\ processFile(dir[j]) # NoHandler
        /\ RoutePathOf(dir[j].parentPath) \in RoutePaths(routes)

\* no imported file gives a handler
NothingLoaded(entries) ==
    \A i \in Imported(entries) :
        \/ ~Accepted(entries[i])
        \/ ~(MethodOf(entries[i].name) = <<"I", "N", "D", "E", "X">>
             \/ IsHttpMethod(MethodOf(entries[i].name)))

DefaultTable == <<[routePath |-> <<"/">>, handlers |-> [m \in {"GET"} |-> "default"]]>>

HasDefaultHandler(table) ==
    \E j \in 1..Len(table) : \E m \in DOMAIN table[j].handlers :
        table[j].handlers[m] = "default"

\* C18: the table that loadRoutes returns is never empty; when the scan
\* gives no handler it is the default route alone, and when the scan gives
\* a handler it is the table of the scan, with no default entry.
C18_DefaultRoute ==
    pc = "loaded" =>
        /\ routes # <<>>
        /\ \A j \in 1..Len(routes) : DOMAIN routes[j].handlers # {}
        /\ NothingLoaded(dir) => routes = DefaultTable
        /\ ~NothingLoaded(dir) =>
               (/\ ~HasDefaultHandler(routes)
                /\ routes = scanDirectoryForRoutes(dir))

\* files were imported, none gave a handler, and the table is the default
C18_Witness ==
    /\ pc = "loaded"
    /\ imported # {}
    /\ NothingLoaded(dir)
    /\ routes = DefaultTable

\* a file of a directory below the root gave a handler and "/" has no entry
C18_WitnessNoDefault ==
    /\ pc = "loaded"
    /\ ~NothingLoaded(dir)
    /\ <<"/">> \notin RoutePaths(routes)

(***************************************************************************)
(* Properties of concurrent requests (ConcSpec).                           *)
(***************************************************************************)
\* C19: no step of the handling of a request (matchRoute, resolveRoute,
\* the HEAD fallback, the 405, the static guard) changes the route table,
\* whatever other requests are suspended meanwhile.
C19_TableImmutable == [][routes' = routes]_vars

\* a 405 is built while a HEAD fallback and a stat of the guard are
\* suspended
C19_Witness ==
    /\ pc = "done"
    /\ resp.status = 405
    /\ \E i \in 1..Len(waiting) : waiting[i].call.via = "head"
    /\ \E i \in 1..Len(waiting) : waiting[i].pc = "stat"

\* the answer of the guard to the request when nothing else runs
GuardAlone(files, r) == staticAssets(files, UrlPathname(r.target))

\* the route stage of the request when nothing else runs
StageAlone(table, r) == RouteStage(table, r, UrlPathname(r.target))

\* the response to the request when it is the only one
AnswerAlone(files, table, r) ==
    IF r.method = "OPTIONS" THEN addCors(corsResponse)
    ELSE IF StartsWith(UrlPathname(r.target), <<"/", "a", "s", "s", "e", "t", "s", "/">>)
            /\ GuardAlone(files, r).status # 404
    THEN addCors(GuardAlone(files, r))
    ELSE AnswerOf(StageAlone(table, r))

\* the locals of a call of fetch are those of its request served alone
Independent(files, table, c) ==
    /\ c.pc = "handler" => c.call = StageAlone(table, c.req).call
    /\ c.pc = "done" => c.resp = AnswerAlone(files, table, c.req)

\* C20: the handler called for a request, the params passed to it and the
\* response depend on the request, the route table and the file system
\* only: they are those of the request served alone, for the call of fetch
\* that runs and for every suspended one.
C20_RequestIndependence ==
    /\ Independent(fs, routes, Suspended(pc, req, pending, guard, call, resp))
    /\ \A i \in 1..Len(waiting) : Independent(fs, routes, waiting[i])

\* a handler is called with params while a call of the same route with
\* other params and a stat of the guard are suspended
C20_Witness ==
    /\ pc = "handler"
    /\ call.request.hasParams
    /\ \E i \in 1..Len(waiting) :
        /\ waiting[i].pc = "handler"
        /\ waiting[i].call.routePath = call.routePath
        /\ waiting[i].call.request.hasParams
        /\ waiting[i].call.request.params # call.request.params
    /\ \E i \in 1..Len(waiting) : waiting[i].pc = "stat"

\* the calls of fetch in flight: the suspended ones and the running one
InFlight == waiting \o <<Suspended(pc, req, pending, guard, call, resp)>>

\* the two calls have reached the same point for the same request
Identical(a, b) == a.req = b.req /\ a.pc = b.pc /\ a.pc # "idle"

\* C21: two identical requests handled against the same route table and
\* the same file system get the same answer of the guard, the same handler
\* with the same params, and the same status and headers.
C21_Determinism ==
    \A i \in 1..Len(InFlight) : \A j \in 1..Len(InFlight) :
        Identical(InFlight[i], InFlight[j]) =>
            /\ InFlight[i].guard = InFlight[j].guard
            /\ InFlight[i].call = InFlight[j].call
            /\ InFlight[i].resp = InFlight[j].resp

\* two identical requests have got their response, from a served file or
\* from a handler that was given params
C21_Witness ==
    /\ pc = "done"
    /\ \E i \in 1..Len(waiting) : Identical(waiting[i], InFlight[Len(InFlight)])
    /\ \/ resp.file # <<>>
       \/ call.request.hasParams

(***************************************************************************)
(* Further properties of the fetch pipeline (Spec).                        *)
(***************************************************************************)
\* the path of the request starts with /assets/
AssetsPath(r) ==
    StartsWith(UrlPathname(r.target), <<"/", "a", "s", "s", "e", "t", "s", "/">>)

\* the guard has answered, before any route was looked up; its answer is the
\* response when it is not 404, and the routes answer when it is
GuardFirst ==
    /\ pc = "stat" => (guard.status = 0 /\ call = NoCall /\ resp = NoResponse)
    /\ pc \in {"handler", "done"} => guard = GuardAlone(fs, req)
    /\ pc = "handler" => guard.status = 404
    /\ pc = "done" =>
           IF guard.status # 404
           THEN resp = addCors(guard) /\ call = NoCall
           ELSE resp.origin # "static" /\ resp = AnswerOf(StageAlone(routes, req))

\* C22 (as stated): for every request whose path starts with /assets/ the
\* guard is consulted before any route lookup; its response is the final
\* response exactly when its status is not 404, and a handler is called
\* only after the guard has answered 404.
C22_AsStated ==
    (pc \in {"stat", "handler", "done"} /\ AssetsPath(req)) => GuardFirst

\* C22 (amended): the same for every request that is no OPTIONS preflight;
\* a preflight is answered 204 without the guard or the routes.
C22_StaticFirst ==
    (pc \in {"stat", "handler", "done"} /\ AssetsPath(req)) =>
        IF req.method = "OPTIONS"
        THEN /\ pc = "done"
             /\ guard.status = 0
             /\ call = NoCall
             /\ resp = addCors(corsResponse)
        ELSE GuardFirst

\* a handler is called for a path under /assets/ after the 404 of the guard
C22_Witness ==
    /\ pc = "handler"
    /\ AssetsPath(req)
    /\ guard.status = 404
    /\ call.handler # ""

\* the guard has served a file of a path that a route matches
C22_WitnessServed ==
    /\ pc = "done"
    /\ AssetsPath(req)
    /\ guard.status = 200
    /\ MatchedEntry(routes, req).found

\* the parameter names of the route path
ParamNames(routePath) ==
    {ParamName(Pieces(routePath)[i]) :
        i \in {k \in 1..Len(Pieces(routePath)) : IsParam(Pieces(routePath)[k])}}

\* the name is bound to the decoded segment that faces one of its places
BoundFromPath(rs, ps, params, name) ==
    /\ name \in DOMAIN params
    /\ \E i \in 1..Len(rs) :
        /\ i <= Len(ps)
        /\ IsParam(rs[i])
        /\ ParamName(rs[i]) = name
        /\ decodeURIComponent(ps[i]).ok
        /\ params[name] = decodeURIComponent(ps[i]).val

\* C23 (as stated): when resolveRoute resolves a request to a route whose
\* path has parameter segments, the request handed to the handler has the
\* URL and the method of the original one and params that hold a decoded
\* value for every parameter name of the route path.
C23_AsStated ==
    (pc = "handler" /\ call.via = "resolved" /\ ParamNames(call.routePath) # {}) =>
        /\ call.request.target = req.target
        /\ call.request.method = req.method
        /\ call.request.hasParams
        /\ \A name \in ParamNames(call.routePath) :
               BoundFromPath(Pieces(call.routePath), Pieces(UrlPathname(req.target)),
                             call.request.params, name)

(***************************************************************************)
(* Properties of the CORS middleware (CorsSpec).                           *)
(***************************************************************************)
\* the header value is one origin or the wildcard
SingleOrigin(value) == value # <<>> /\ ~Includes(value, ",")

\* C24 (as stated): the Access-Control-Allow-Origin that corsHeaders gives
\* is one origin or the wildcard, never a comma-separated list, and it is the
\* request Origin when that is one of the origins of a configured array.
C24_AsStated ==
    hdr.called =>
        /\ SingleOrigin(hdr.allowOrigin)
        /\ (req.configured.kind = "array" /\ req.requestOrigin.has
                /\ Includes(req.configured.list, req.requestOrigin.val))
               => hdr.allowOrigin = req.requestOrigin.val

(***************************************************************************)
(* Properties of the HEAD fallback and of the reach of handlers (Spec).    *)
(***************************************************************************)
\* the request that resolveRoute hands the handler for a GET of the path
GetRequest(table, r) == resolveRoute(table, Request("GET", r.target)).request

\* C25 (as stated): when a HEAD request is served through the GET handler
\* of a parameterized route, the request passed to the handler carries the
\* params that resolveRoute attaches for a GET of the same path.
C25_AsStated ==
    (pc = "handler" /\ call.via = "head" /\ ParamNames(call.routePath) # {}) =>
        /\ call.request.hasParams = GetRequest(routes, req).hasParams
        /\ call.request.params = GetRequest(routes, req).params

\* the call of a handler that fetch makes for the request, NoCall when it
\* makes none
Invoked(files, table, r) ==
    IF r.method = "OPTIONS" THEN NoCall
    ELSE IF AssetsPath(r) /\ GuardAlone(files, r).status # 404 THEN NoCall
    ELSE StageAlone(table, r).call

\* the requests of every method for the enumerated targets
AnyMethodRequests ==
    {Request(m, t) : m \in {Alphabetical[k] : k \in 1..Len(Alphabetical)},
                     t \in AssetTargets \cup RouteTargets}

\* some request makes fetch call the handler at key m of entry i
Reachable(files, table, i, m) ==
    \E r \in AnyMethodRequests :
        /\ Invoked(files, table, r).routePath = table[i].routePath
        /\ Invoked(files, table, r).key = m
        /\ Invoked(files, table, r).handler = table[i].handlers[m]

\* C26 (as stated): for every route path of the table and every method key
\* of its entry there is a request for which fetch calls that handler; the
\* handler at OPTIONS is called for an OPTIONS request to its route.
C26_AsStated ==
    (pc = "idle" /\ req = NoRequest) =>
        \A i \in 1..Len(routes) : \A m \in DOMAIN routes[i].handlers :
            Reachable(fs, routes, i, m)

(***************************************************************************)
(* The guard over a file system that changes (RaceSpec).                   *)
(***************************************************************************)
\* C27 (as stated): when the file system changes between the checks of the
\* guard and its stat and stream of the file, the file that the guard
\* streams is still a regular file below the assets root that no symbolic
\* link leads to.
C27_AsStated ==
    (pc = "done" /\ guard.status = 200) =>
        /\ OpensFileUnderRoot(fs, RealPath(fs, guard.file))
        /\ NoLinkBelowRoot(fs, guard.file)

(***************************************************************************)
(* One response per request (Spec).                                        *)
(***************************************************************************)
\* the branch of fetch that answers the request, by the fixed priority
Chosen(files, table, r) ==
    IF r.method = "OPTIONS" THEN "preflight"
    ELSE IF AssetsPath(r) /\ GuardAlone(files, r).status # 404 THEN "static"
    ELSE IF resolveRoute(table, r).found THEN "handler"
    ELSE IF /\ MatchedEntry(table, r).found
            /\ r.method = "HEAD"
            /\ "GET" \in DOMAIN MatchedEntry(table, r).handlers
    THEN "head"
    ELSE IF MatchedEntry(table, r).found THEN "405"
    ELSE "404"

\* the response is the one of the branch that the priority chooses, and a
\* response that comes from no handler and no served file has one of the
\* four statuses
OneResponse ==
    /\ resp.status # 0
    /\ resp.origin = Chosen(fs, routes, req)
    /\ (call = NoCall) = (resp.origin \notin {"handler", "head"})
    /\ (resp.origin \notin {"handler", "head"} /\ resp.file = <<>>)
           => resp.status \in {204, 400, 404, 405}

\* a request that is being handled has no response yet
NoResponseYet == pc \in {"stat", "handler"} => resp = NoResponse

\* a handler is called once: the call goes on to the response, and the
\* response to the end of the request
OneHandler ==
    /\ pc = "handler" => (pc' = "done" /\ call' = call)
    /\ pc = "done" => pc' = "idle"
    /\ pc = "stat" => pc' \in {"handler", "done"}

\* C28: provided the stat of the guard completes and every handler that is
\* called returns, fetch ends, in at most two steps, with exactly one
\* response, that of the first branch in the order preflight, static asset
\* (not 404), resolved handler, HEAD through GET, 405, 404; at most one
\* handler is called per request, and a response that comes from no handler
\* and no served asset has status 204, 400, 404 or 405.
C28_OneResponse ==
    [][/\ (pc = "done" /\ resp.origin # "error") => OneResponse
       /\ NoResponseYet
       /\ OneHandler]_vars

\* a HEAD is answered through the GET handler of a route that has no HEAD
\* handler
C28_Witness ==
    /\ pc = "done"
    /\ resp.origin = "head"
    /\ call.via = "head"
    /\ ~resolveRoute(routes, req).found

(***************************************************************************)
(* Empty segments and empty entries.                                       *)
(***************************************************************************)
\* the pieces between the slashes of a path, the empty ones included
SlashSeparated(path) == Tail(Split(path))

\* C29 (as stated): whenever matchRoute returns a parameterized route that
\* is not the path itself, the normalized path has as many pieces between
\* its slashes as the route path and none of them is empty; a path with
\* two slashes in a row matches no parameterized route.
C29_AsStated ==
    (/\ mr.called
     /\ mr.result.found
     /\ mr.pathname # <<>>
     /\ ParamNames(mr.result.routePath) # {}
     /\ Lookup(routes, normalizePathname(mr.pathname)) = {})
        => /\ Len(SlashSeparated(normalizePathname(mr.pathname)))
                  = Len(SlashSeparated(mr.result.routePath))
           /\ \A i \in 1..Len(SlashSeparated(normalizePathname(mr.pathname))) :
                  SlashSeparated(normalizePathname(mr.pathname))[i] # <<>>

\* the handler can be called: a function of a module, the handler that
\* wraps a React component, or the default handler
Callable(handler) == handler \in {"plain", "params", "react", "default"}

\* the file is imported and not skipped: it gives a handler
GivesHandler(entries, i) ==
    /\ i \in Imported(entries)
    /\ Accepted(entries[i])
    /\ \/ MethodOf(entries[i].name) = <<"I", "N", "D", "E", "X">>
       \/ IsHttpMethod(MethodOf(entries[i].name))

\* C30: every route path of the table that loadRoutes returns has at least
\* one handler, every method key is an upper-case HTTP method name and
\* every handler can be called; so the Allow list of a route is never empty
\* and a route path comes from a directory with a file that was not skipped
\* (or is the default route).
C30_NoEmptyEntry ==
    pc = "loaded" =>
        \A j \in 1..Len(routes) :
            /\ DOMAIN routes[j].handlers # {}
            /\ \A m \in DOMAIN routes[j].handlers :
                   /\ \E k \in 1..Len(HTTP_METHODS) : HTTP_METHODS[k] = m
                   /\ Callable(routes[j].handlers[m])
            /\ allowedMethods(routes[j].handlers) # <<>>
            /\ \/ routes = DefaultTable
               \/ \E i \in 1..Len(dir) :
                      /\ GivesHandler(dir, i)
                      /\ RoutePathOf(dir[i].parentPath) = routes[j].routePath

\* the files of one directory were all skipped, and the table has the route
\* of another directory and none for that one
C30_Witness ==
    /\ pc = "loaded"
    /\ routes # DefaultTable
    /\ \E i \in imported :
        /\ FailsToLoad(dir[i])
        /\ RoutePathOf(dir[i].parentPath) \notin RoutePaths(routes)

====
